---------------------------- MODULE Spec2Model ----------------------------
(***************************************************************************)
(* A model of the MCP scene compiler (PhysicsSceneCompiler.compile_scene   *)
(* in src/main.py, and its twin build_scene_from_mcp).                     *)
(*                                                                         *)
(* Python values are tagged records [t |-> tag, v |-> payload]:            *)
(*   "none"  None                                                          *)
(*   "num"   a float, ((n/d) * 10^(200 s))^(1/r) * pi^e                    *)
(*   "str"   a string, as the sequence of its pieces (an f-string or a     *)
(*           concatenation is the concatenation of the pieces)             *)
(*   "dict"  a mapping, as a function from key strings to values          *)
(*   "list"  a list, as a sequence of values                               *)
(*   "raise" the outcome of an expression that raised: <<class>> \o text   *)
(* A float keeps its magnitude scale s, so that the underflow and the      *)
(* overflow of a double are in the model; the rounding of the mantissa is  *)
(* not, and n/d is exact.                                                  *)
(***************************************************************************)
EXTENDS Integers, Sequences, FiniteSets, TLC

VARIABLES
    G,            \* self.G of the compiler instance
    pc,           \* where the current compile_scene call stands
    mcp_data,     \* the argument of the current call
    final_scene,  \* the local final_scene: world, objects, joints
    objects_map,  \* the local id -> object lookup table
    idx,          \* the position of the running for loop in its list
    result,       \* what the call returned: <<scene, error>>
    given,        \* the document as it was when the call was entered
    built_with,   \* the gravity_g the compiler instance was constructed with
    reused,       \* whether the instance has completed a call before
    shared,       \* the mutable values of the scene under construction that
                  \* are objects of the caller's document: <<path in the
                  \* scene, path in the document>>
    edit,         \* what the caller has assigned to since the call returned:
                  \* <<"output" or "input", the path of the slot>>
    calls,        \* the compile_scene calls of the threads that share the
                  \* instance: for each thread, the locals of its call
    documents,    \* the documents the threads pass in, by reference
    snowflake,    \* the Snowflake instance: its attributes
    clock,        \* time.time() * 1000, in milliseconds
    generating,   \* the generate call: where it stands, whether it has
                  \* waited for the next millisecond, and the ID generate
                  \* returned last
    current_order_in_session,  \* self._current_order_in_session
    last_call,    \* the last modify_order_attribute call: its arguments, the
                  \* order it found and the order it returned
    placing,      \* the end_conversation_and_place_order call: where it
                  \* stands, the order it found, what it has called, how the
                  \* wait for the payment ended, and what it returned
    functions,    \* FunctionRegistry._functions: name -> function
    function_docs,  \* FunctionRegistry._function_docs: name -> description
    registering,  \* the last register call: the function, the registry it
                  \* found, and how it ended
    executing     \* the last execute_function_call: the call data, whether
                  \* the tool was invoked, and how the call ended

vars == <<G, pc, mcp_data, final_scene, objects_map, idx, result, given, built_with,
          reused, shared, edit, calls, documents, snowflake, clock, generating,
          current_order_in_session, last_call, placing,
          functions, function_docs, registering, executing>>

\* the state of the scene compiler, its callers and its threads
compilerState == <<G, pc, mcp_data, final_scene, objects_map, idx, result, given,
                   built_with, reused, shared, edit, calls, documents>>
\* the state of the ID generator
snowflakeState == <<snowflake, clock, generating>>
\* the state of the programs other than the scene compiler
\* the state of the order desk
orderState == <<current_order_in_session, last_call, placing>>
\* the state of the function registry and its executor
registryState == <<functions, function_docs, registering, executing>>
elsewhere == <<snowflakeState, orderState, registryState>>

-----------------------------------------------------------------------------
(* Python values *)

None == [t |-> "none", v |-> <<>>]
Str(s) == [t |-> "str", v |-> <<s>>]
StrOf(pieces) == [t |-> "str", v |-> pieces]
Dict(f) == [t |-> "dict", v |-> f]
List(s) == [t |-> "list", v |-> s]
Raise(cls, text) == [t |-> "raise", v |-> <<cls>> \o text]

IsNum(x) == x.t = "num"
IsStr(x) == x.t = "str"
IsDict(x) == x.t = "dict"
IsList(x) == x.t = "list"
IsNone(x) == x.t = "none"
IsRaise(x) == x.t = "raise"
ExcClass(x) == x.v[1]
ExcText(x) == Tail(x.v)

EmptyDict == Dict(<<>>)
EmptyList == List(<<>>)

\* k in d, for a dict d
HasKey(d, k) == k \in DOMAIN d.v

\* d with d[k] = x set (a new mapping; d itself is a value and stays as it is)
DictSet(d, k, x) ==
    Dict([key \in (DOMAIN d.v) \cup {k} |-> IF key = k THEN x ELSE d.v[key]])

-----------------------------------------------------------------------------
(* Numbers. A "num" payload [n, d, e, r, s] stands for the float nearest  *)
(* to ((n/d) * 10^(200 s))^(1/r) * pi^e. The scale s tells the magnitudes   *)
(* of a double apart: 10^-400 is below the least double and 10^400 above    *)
(* the greatest, and a term 10^200 times smaller than the other is lost in  *)
(* a sum. Within one scale the arithmetic is exact on n/d.                  *)

RECURSIVE GCD(_, _)
GCD(a, b) == IF b = 0 THEN a ELSE GCD(b, a % b)

Abs(a) == IF a < 0 THEN -a ELSE a

Real(n, d, e, r, s) ==
    IF n = 0
    THEN [t |-> "num", v |-> [n |-> 0, d |-> 1, e |-> 0, r |-> 1, s |-> 0]]
    ELSE LET g == GCD(Abs(n), Abs(d))
             sign == IF d < 0 THEN -1 ELSE 1
         IN  [t |-> "num", v |-> [n |-> (sign * n) \div g, d |-> (sign * d) \div g,
                                   e |-> e, r |-> r, s |-> s]]

Rat(n, d) == Real(n, d, 0, 1, 0)
IntNum(n) == Real(n, 1, 0, 1, 0)
Pi == Real(1, 1, 1, 1, 0)

\* the floats 1e-200 and 1e200
Tiny == Real(1, 1, 0, 1, -1)
Huge == Real(1, 1, 0, 1, 1)

\* float("inf"), what a product or quotient beyond the greatest double gives
Inf == [t |-> "num", v |-> [n |-> 1, d |-> 0, e |-> 0, r |-> 1, s |-> 0]]

IsZero(a) == a.v.n = 0
IsInteger(a) == a.v.d = 1 /\ a.v.e = 0 /\ a.v.r = 1 /\ a.v.s = 0

\* a product or quotient of scale s: 0.0 on underflow, inf on overflow
Scaled(n, d, e, s) ==
    IF n = 0 \/ s <= -2 THEN IntNum(0)
    ELSE IF s >= 2 THEN Inf
    ELSE Real(n, d, e, 1, s)

NumMul(a, b) == Scaled(a.v.n * b.v.n, a.v.d * b.v.d, a.v.e + b.v.e, a.v.s + b.v.s)
NumDiv(a, b) == Scaled(a.v.n * b.v.d, a.v.d * b.v.n, a.v.e - b.v.e, a.v.s - b.v.s)
NumNeg(a) == Real(-a.v.n, a.v.d, a.v.e, a.v.r, a.v.s)

\* a + b: exact within one scale; across scales the smaller term is lost
NumAdd(a, b) ==
    IF IsZero(a) THEN b
    ELSE IF IsZero(b) THEN a
    ELSE IF a.v.s = b.v.s
    THEN Real(a.v.n * b.v.d + b.v.n * a.v.d, a.v.d * b.v.d, a.v.e, 1, a.v.s)
    ELSE IF a.v.s > b.v.s THEN a ELSE b

NumSub(a, b) == NumAdd(a, NumNeg(b))

IsSquare(k) == \E q \in 0..k : q * q = k
Root(k) == CHOOSE q \in 0..k : q * q = k

\* the non-negative root of a >= 0: a rational when a is the square of one
NumSqrt(a) ==
    IF a.v.s = 0 /\ IsSquare(a.v.n) /\ IsSquare(a.v.d)
    THEN Rat(Root(a.v.n), Root(a.v.d))
    ELSE Real(a.v.n, a.v.d, 0, 2, a.v.s)


-----------------------------------------------------------------------------
(* Python's operators on values: a value, or the exception the operator raises *)

RECURSIVE Repeat(_, _)
Repeat(s, k) == IF k <= 0 THEN <<>> ELSE s \o Repeat(s, k - 1)

TypeError(what) == Raise("TypeError", <<what>>)

\* a * b
PyMul(a, b) ==
    IF IsNum(a) /\ IsNum(b) THEN NumMul(a, b)
    ELSE IF (IsStr(a) \/ IsList(a)) /\ IsNum(b)
    THEN IF IsInteger(b) THEN [t |-> a.t, v |-> Repeat(a.v, b.v.n)]
         ELSE TypeError("can't multiply sequence by non-int")
    ELSE IF IsNum(a) /\ (IsStr(b) \/ IsList(b))
    THEN IF IsInteger(a) THEN [t |-> b.t, v |-> Repeat(b.v, a.v.n)]
         ELSE TypeError("can't multiply sequence by non-int")
    ELSE TypeError("unsupported operand type(s) for *")

\* a ** 2
PySquare(a) ==
    IF IsNum(a)
    THEN IF ~ IsZero(a) /\ a.v.s >= 1
         THEN Raise("OverflowError", <<"(34, 'Numerical result out of range')">>)
         ELSE NumMul(a, a)
    ELSE TypeError("unsupported operand type(s) for ** or pow()")

\* a - b
PySub(a, b) ==
    IF IsNum(a) /\ IsNum(b) THEN NumSub(a, b)
    ELSE TypeError("unsupported operand type(s) for -")

\* a + b, for the numbers the compiler adds
PyAdd(a, b) ==
    IF IsNum(a) /\ IsNum(b) THEN NumAdd(a, b)
    ELSE TypeError("unsupported operand type(s) for +")

\* a / b
PyDiv(a, b) ==
    IF IsNum(a) /\ IsNum(b)
    THEN IF IsZero(b) THEN Raise("ZeroDivisionError", <<"division by zero">>)
         ELSE NumDiv(a, b)
    ELSE TypeError("unsupported operand type(s) for /")

\* a == 0: never raises; a string, list, dict or None is not equal to 0
PyEqZero(a) == IsNum(a) /\ IsZero(a)

\* a == s for a string literal s
PyEqStr(a, s) == IsStr(a) /\ a.v = <<s>>

\* d[k] for a string literal k
Subscript(d, k) ==
    IF IsDict(d)
    THEN IF HasKey(d, k) THEN d.v[k] ELSE Raise("KeyError", <<"'", k, "'">>)
    ELSE IF IsStr(d) THEN TypeError("string indices must be integers")
    ELSE IF IsList(d) THEN TypeError("list indices must be integers or slices")
    ELSE TypeError("object is not subscriptable")

\* d.get(k, default)
Get(d, k, default) ==
    IF IsDict(d)
    THEN IF HasKey(d, k) THEN d.v[k] ELSE default
    ELSE Raise("AttributeError", <<"object has no attribute 'get'">>)

\* d.get(k): None when the key is absent
GetOrNone(d, k) == Get(d, k, None)

\* the keys of a dict in the order iteration yields them
RECURSIVE Walk(_)
Walk(left) ==
    IF left = {} THEN <<>>
    ELSE LET first == CHOOSE key \in left : TRUE
         IN  <<Str(first)>> \o Walk(left \ {first})

\* the values `for x in c` walks through, as a list, or the TypeError raised
Iterate(c) ==
    IF IsList(c) THEN c
    ELSE IF IsStr(c) THEN List([p \in 1..Len(c.v) |-> Str(c.v[p])])
    ELSE IF IsDict(c) THEN List(Walk(DOMAIN c.v))
    ELSE TypeError("object is not iterable")

\* whether x can be a dict key (hash(x) does not raise)
Hashable(x) == ~ (IsDict(x) \/ IsList(x))

\* str(x) for the values an f-string formats
PyStr(x) ==
    IF IsStr(x) THEN x.v
    ELSE IF IsNone(x) THEN <<"None">>
    ELSE <<ToString(x.v)>>


-----------------------------------------------------------------------------
(* PhysicsSceneCompiler._calculate_density *)

DefaultSize == Dict([width |-> IntNum(1), height |-> IntNum(1)])

\* size["width"] * size["height"]
BoxArea(size) ==
    LET width == Subscript(size, "width")
        height == Subscript(size, "height")
    IN  IF IsRaise(width) THEN width
        ELSE IF IsRaise(height) THEN height
        ELSE PyMul(width, height)

\* radius ** 2, the area of a circle with the factor pi left out
CircleAreaNoPi(radius) == PySquare(radius)

\* np.pi * radius ** 2
CircleArea(radius) ==
    LET squared == PySquare(radius)
    IN  IF IsRaise(squared) THEN squared ELSE PyMul(Pi, squared)

\* calculate_density without the `if area == 0` guard
calculate_density_unguarded(obj) ==
    LET mass == Get(obj, "mass", IntNum(1))
        shape == GetOrNone(obj, "shape")
        area == IF PyEqStr(shape, "box")
                THEN BoxArea(Get(obj, "size", DefaultSize))
                ELSE IF PyEqStr(shape, "circle")
                THEN CircleArea(Get(obj, "radius", IntNum(1)))
                ELSE IntNum(1)
    IN  IF IsRaise(area) THEN area
        ELSE PyDiv(mass, area)

calculate_density(obj) ==
    LET mass == Get(obj, "mass", IntNum(1))
        shape == GetOrNone(obj, "shape")
        area == IF PyEqStr(shape, "box")
                THEN BoxArea(Get(obj, "size", DefaultSize))
                ELSE IF PyEqStr(shape, "circle")
                THEN CircleArea(Get(obj, "radius", IntNum(1)))
                ELSE IntNum(1)
    IN  IF IsRaise(area) THEN area
        ELSE IF PyEqZero(area) THEN IntNum(1)
        ELSE PyDiv(mass, area)

-----------------------------------------------------------------------------
(* PhysicsSceneCompiler._prepare_pulley_joint *)

\* np.sqrt((pos['x'] - pulley_pos['x'])**2 + (pos['y'] - pulley_pos['y'])**2)
RopeLength(pos, pulley_pos) ==
    LET ax == Subscript(pos, "x")
        px == Subscript(pulley_pos, "x")
        dx == PySub(ax, px)
        dx2 == PySquare(dx)
        ay == Subscript(pos, "y")
        py == Subscript(pulley_pos, "y")
        dy == PySub(ay, py)
        dy2 == PySquare(dy)
    IN  IF IsRaise(ax) THEN ax
        ELSE IF IsRaise(px) THEN px
        ELSE IF IsRaise(dx) THEN dx
        ELSE IF IsRaise(dx2) THEN dx2
        ELSE IF IsRaise(ay) THEN ay
        ELSE IF IsRaise(py) THEN py
        ELSE IF IsRaise(dy) THEN dy
        ELSE IF IsRaise(dy2) THEN dy2
        ELSE NumSqrt(PyAdd(dx2, dy2))

\* whether evaluating `obj_a_id not in objects_map or obj_b_id not in objects_map`
\* hashes a list or a dict (a TypeError); the `or` skips its right side when
\* the left side is true
IdUnhashable(obj_a_id, obj_b_id, map) ==
    \/ ~ Hashable(obj_a_id)
    \/ obj_a_id \in DOMAIN map /\ ~ Hashable(obj_b_id)

\* obj_a_id not in objects_map or obj_b_id not in objects_map
IdMissing(obj_a_id, obj_b_id, map) ==
    obj_a_id \notin DOMAIN map \/ obj_b_id \notin DOMAIN map

\* objects_map[id]
MapLookup(map, id) ==
    IF id \in DOMAIN map THEN map[id] ELSE Raise("KeyError", PyStr(id))

PulleyRecord(obj_a_id, obj_b_id, pulley_pos, length_a, length_b, ratio) ==
    Dict([type |-> Str("PulleyJoint"),
          object_a_id |-> obj_a_id,
          object_b_id |-> obj_b_id,
          ground_anchor_a |-> pulley_pos,
          ground_anchor_b |-> pulley_pos,
          local_anchor_a |-> Dict([x |-> IntNum(0), y |-> IntNum(0)]),
          local_anchor_b |-> Dict([x |-> IntNum(0), y |-> IntNum(0)]),
          length_a |-> length_a,
          length_b |-> length_b,
          ratio |-> ratio])

\* prepare_pulley_joint that takes the origin for a pulley_anchor_pos that is
\* not given
prepare_pulley_joint_default_anchor(joint_mcp, map) ==
    LET obj_a_id == Subscript(joint_mcp, "object_a_id")
        obj_b_id == Subscript(joint_mcp, "object_b_id")
        obj_a == MapLookup(map, obj_a_id)
        obj_b == MapLookup(map, obj_b_id)
        pos_a == Subscript(obj_a, "position")
        pos_b == Subscript(obj_b, "position")
        pulley_pos == Get(joint_mcp, "pulley_anchor_pos",
                          Dict([x |-> IntNum(0), y |-> IntNum(0)]))
        length_a == RopeLength(pos_a, pulley_pos)
        length_b == RopeLength(pos_b, pulley_pos)
    IN  IF IsRaise(obj_a_id) THEN obj_a_id
        ELSE IF IsRaise(obj_b_id) THEN obj_b_id
        ELSE IF IdUnhashable(obj_a_id, obj_b_id, map)
        THEN TypeError("unhashable type")
        ELSE IF IdMissing(obj_a_id, obj_b_id, map)
        THEN Raise("ValueError",
                   <<"Object ID referenced for PulleyJoint not found: ">>
                   \o PyStr(obj_a_id) \o <<" or ">> \o PyStr(obj_b_id))
        ELSE IF IsRaise(obj_a) THEN obj_a
        ELSE IF IsRaise(pos_a) THEN pos_a
        ELSE IF IsRaise(obj_b) THEN obj_b
        ELSE IF IsRaise(pos_b) THEN pos_b
        ELSE IF IsRaise(length_a) THEN length_a
        ELSE IF IsRaise(length_b) THEN length_b
        ELSE PulleyRecord(obj_a_id, obj_b_id, pulley_pos, length_a, length_b,
                          Get(joint_mcp, "ratio", IntNum(1)))

\* prepare_pulley_joint that does not look the ids up first and takes an
\* object it does not find to be at the anchor
prepare_pulley_joint_unchecked(joint_mcp, map) ==
    LET obj_a_id == Subscript(joint_mcp, "object_a_id")
        obj_b_id == Subscript(joint_mcp, "object_b_id")
        pulley_pos == Subscript(joint_mcp, "pulley_anchor_pos")
        pos_a == IF obj_a_id \in DOMAIN map
                 THEN Subscript(map[obj_a_id], "position") ELSE pulley_pos
        pos_b == IF obj_b_id \in DOMAIN map
                 THEN Subscript(map[obj_b_id], "position") ELSE pulley_pos
        length_a == RopeLength(pos_a, pulley_pos)
        length_b == RopeLength(pos_b, pulley_pos)
    IN  IF IsRaise(obj_a_id) THEN obj_a_id
        ELSE IF IsRaise(obj_b_id) THEN obj_b_id
        ELSE IF ~ Hashable(obj_a_id) \/ ~ Hashable(obj_b_id)
        THEN TypeError("unhashable type")
        ELSE IF IsRaise(pulley_pos) THEN pulley_pos
        ELSE IF IsRaise(pos_a) THEN pos_a
        ELSE IF IsRaise(pos_b) THEN pos_b
        ELSE IF IsRaise(length_a) THEN length_a
        ELSE IF IsRaise(length_b) THEN length_b
        ELSE PulleyRecord(obj_a_id, obj_b_id, pulley_pos, length_a, length_b,
                          Get(joint_mcp, "ratio", IntNum(1)))

\* prepare_pulley_joint that copies joint_mcp and adds the derived fields to it
prepare_pulley_joint_forwarding(joint_mcp, map) ==
    LET obj_a_id == Subscript(joint_mcp, "object_a_id")
        obj_b_id == Subscript(joint_mcp, "object_b_id")
        pos_a == Subscript(MapLookup(map, obj_a_id), "position")
        pos_b == Subscript(MapLookup(map, obj_b_id), "position")
        pulley_pos == Subscript(joint_mcp, "pulley_anchor_pos")
        length_a == RopeLength(pos_a, pulley_pos)
        length_b == RopeLength(pos_b, pulley_pos)
        record == PulleyRecord(obj_a_id, obj_b_id, pulley_pos, length_a, length_b,
                               Get(joint_mcp, "ratio", IntNum(1)))
    IN  IF \E x \in {obj_a_id, obj_b_id, pulley_pos} : IsRaise(x)
        THEN Raise("KeyError", <<"'key'">>)
        ELSE IF IdUnhashable(obj_a_id, obj_b_id, map)
        THEN TypeError("unhashable type")
        ELSE IF IdMissing(obj_a_id, obj_b_id, map)
        THEN Raise("ValueError", <<"Object ID referenced for PulleyJoint not found">>)
        ELSE IF IsRaise(pos_a) THEN pos_a
        ELSE IF IsRaise(pos_b) THEN pos_b
        ELSE IF IsRaise(length_a) THEN length_a
        ELSE IF IsRaise(length_b) THEN length_b
        ELSE Dict([k \in DOMAIN joint_mcp.v \cup DOMAIN record.v |->
                      IF k \in DOMAIN record.v THEN record.v[k] ELSE joint_mcp.v[k]])

prepare_pulley_joint(joint_mcp, map) ==
    LET obj_a_id == Subscript(joint_mcp, "object_a_id")
        obj_b_id == Subscript(joint_mcp, "object_b_id")
        obj_a == MapLookup(map, obj_a_id)
        obj_b == MapLookup(map, obj_b_id)
        pos_a == Subscript(obj_a, "position")
        pos_b == Subscript(obj_b, "position")
        pulley_pos == Subscript(joint_mcp, "pulley_anchor_pos")
        length_a == RopeLength(pos_a, pulley_pos)
        length_b == RopeLength(pos_b, pulley_pos)
    IN  IF IsRaise(obj_a_id) THEN obj_a_id
        ELSE IF IsRaise(obj_b_id) THEN obj_b_id
        ELSE IF IdUnhashable(obj_a_id, obj_b_id, map)
        THEN TypeError("unhashable type")
        ELSE IF IdMissing(obj_a_id, obj_b_id, map)
        THEN Raise("ValueError",
                   <<"Object ID referenced for PulleyJoint not found: ">>
                   \o PyStr(obj_a_id) \o <<" or ">> \o PyStr(obj_b_id))
        ELSE IF IsRaise(obj_a) THEN obj_a
        ELSE IF IsRaise(pos_a) THEN pos_a
        ELSE IF IsRaise(obj_b) THEN obj_b
        ELSE IF IsRaise(pos_b) THEN pos_b
        ELSE IF IsRaise(pulley_pos) THEN pulley_pos
        ELSE IF IsRaise(length_a) THEN length_a
        ELSE IF IsRaise(length_b) THEN length_b
        ELSE PulleyRecord(obj_a_id, obj_b_id, pulley_pos, length_a, length_b,
                          Get(joint_mcp, "ratio", IntNum(1)))


-----------------------------------------------------------------------------
(* PhysicsSceneCompiler.compile_scene, one action per step *)

\* a dict or a list: a value that can be changed in place
IsContainer(x) == IsDict(x) \/ IsList(x)

\* line 185: mcp_data.get("world", ...) hands out the document's own world
WorldShares ==
    IF IsDict(mcp_data) /\ HasKey(mcp_data, "world") /\ IsContainer(mcp_data.v.world)
    THEN {<<(<<"world">>), (<<"world">>)>>}
    ELSE {}

\* line 195: obj_mcp.copy() is a new dict whose values are those of obj_mcp,
\* the very same objects
ObjectShares(i, obj_mcp) ==
    IF IsDict(obj_mcp)
    THEN {<<(<<"objects", ToString(i), k>>), (<<"objects", ToString(i), k>>)>> :
             k \in {key \in DOMAIN obj_mcp.v : IsContainer(obj_mcp.v[key])}}
    ELSE {}

\* lines 126-137 and 213: the record of a PulleyJoint is a new dict whose
\* ground anchors are both the joint's own pulley_anchor_pos (and whose ratio
\* is the joint's own); any other joint is appended itself
JointShares(j, joint_mcp) ==
    IF ~ IsDict(joint_mcp) THEN {}
    ELSE IF PyEqStr(GetOrNone(joint_mcp, "type"), "PulleyJoint")
    THEN {<<(<<"joints", ToString(j), k[1]>>), (<<"joints", ToString(j), k[2]>>)>> :
             k \in {pair \in {<<"ground_anchor_a", "pulley_anchor_pos">>,
                               <<"ground_anchor_b", "pulley_anchor_pos">>,
                               <<"ratio", "ratio">>} :
                        /\ HasKey(joint_mcp, pair[2])
                        /\ IsContainer(joint_mcp.v[pair[2]])}}
    ELSE {<<(<<"joints", ToString(j)>>), (<<"joints", ToString(j)>>)>>}

NoResult == <<>>
NoEdit == <<>>
NoScene == [world |-> None, objects |-> <<>>, joints |-> <<>>]
NoMap == <<>>

\* the exception classes of the model; each derives from Exception
ExceptionClasses ==
    {"KeyError", "ValueError", "TypeError", "AttributeError", "ZeroDivisionError",
     "OverflowError"}

\* Handler without the `except Exception` clause
HandlerKeyValueOnly(exc) ==
    IF ExcClass(exc) \in {"KeyError", "ValueError"} THEN "invalid_key" ELSE "none"

\* the except clause that catches exc: the first that matches its class
Handler(exc) ==
    IF ExcClass(exc) \in {"KeyError", "ValueError"} THEN "invalid_key"
    ELSE IF ExcClass(exc) \in ExceptionClasses THEN "unexpected"
    ELSE "none"

\* the message of the except clause: its text, then str(e)
ErrorMessage(exc) ==
    IF Handler(exc) = "invalid_key"
    THEN StrOf(<<"Error processing MCP data: Invalid or missing key. Details: ">>
               \o ExcText(exc))
    ELSE StrOf(<<"An unexpected error occurred in the scene compiler: ">>
               \o ExcText(exc))

\* an exception leaves the try block: return None, message from the clause
\* that catches it, or the exception reaches the caller when none does; the
\* locals of the call are gone
Fail(exc) ==
    /\ IF Handler(exc) = "none"
       THEN result' = NoResult /\ pc' = "raised"
       ELSE result' = <<None, ErrorMessage(exc)>> /\ pc' = "done"
    /\ final_scene' = NoScene
    /\ objects_map' = NoMap
    /\ idx' = 0
    /\ shared' = {}
    /\ UNCHANGED <<G, mcp_data, given, built_with, reused, edit, calls, documents, elsewhere>>

\* DefaultWorld with the gravity of Earth, whatever the compiler was built with
DefaultWorldEarth(g) ==
    Dict([gravity |-> Dict([x |-> IntNum(0), y |-> Rat(-49, 5)])])

\* {"gravity": {"x": 0, "y": -self.G}}
DefaultWorld(g) == Dict([gravity |-> Dict([x |-> IntNum(0), y |-> NumSub(IntNum(0), g)])])

\* obj['id'] as a dict key: the id, or what subscripting or hashing raises
KeyOf(obj) ==
    LET id == Subscript(obj, "id")
    IN  IF IsRaise(id) THEN id
        ELSE IF Hashable(id) THEN id
        ELSE TypeError("unhashable type")

\* BuildObjectsMap that keeps the first object of an id
BuildObjectsMapFirstWins(objs) ==
    LET bad == {p \in 1..Len(objs) : IsRaise(KeyOf(objs[p]))}
        first == CHOOSE p \in bad : \A q \in bad : p <= q
        ids == {KeyOf(objs[p]) : p \in 1..Len(objs)}
        First(id) == CHOOSE p \in 1..Len(objs) :
                         /\ KeyOf(objs[p]) = id
                         /\ \A q \in 1..Len(objs) : KeyOf(objs[q]) = id => p <= q
    IN  IF bad # {} THEN KeyOf(objs[first])
        ELSE [t |-> "map", v |-> [id \in ids |-> objs[First(id)]]]

\* {obj['id']: obj for obj in objs}: the table (the last object of an id
\* wins), or the exception of the first object that raises
BuildObjectsMap(objs) ==
    LET bad == {p \in 1..Len(objs) : IsRaise(KeyOf(objs[p]))}
        first == CHOOSE p \in bad : \A q \in bad : p <= q
        ids == {KeyOf(objs[p]) : p \in 1..Len(objs)}
        Last(id) == CHOOSE p \in 1..Len(objs) :
                        /\ KeyOf(objs[p]) = id
                        /\ \A q \in 1..Len(objs) : KeyOf(objs[q]) = id => q <= p
    IN  IF bad # {} THEN KeyOf(objs[first])
        ELSE [t |-> "map", v |-> [id \in ids |-> objs[Last(id)]]]

\* the list the object loop walks: mcp_data.get("objects", [])
ObjectList == Iterate(Get(mcp_data, "objects", EmptyList))
\* the list the joint loop walks: mcp_data.get("joints", [])
JointList == Iterate(Get(mcp_data, "joints", EmptyList))

\* lines 184-190: final_scene with its world, and the lookup table
BuildScene ==
    /\ pc = "start"
    /\ LET world == Get(mcp_data, "world", DefaultWorld(G))
           map == BuildObjectsMap(ObjectList.v)
       IN  IF IsRaise(world) THEN Fail(world)
           ELSE IF IsRaise(ObjectList) THEN Fail(ObjectList)
           ELSE IF IsRaise(map) THEN Fail(map)
           ELSE /\ final_scene' = [world |-> world, objects |-> <<>>, joints |-> <<>>]
                /\ objects_map' = map.v
                /\ pc' = "objects"
                /\ idx' = 1
                /\ shared' = WorldShares
                /\ UNCHANGED <<G, mcp_data, result, given, built_with, reused, edit, calls, documents, elsewhere>>

\* ElaborateObject that keeps only the fields the compiler and the renderer
\* know
ElaborateObjectKnownFields(obj_mcp) ==
    LET known == {"id", "type", "shape", "position", "size", "radius", "mass", "density"}
        planck_obj == Dict([k \in DOMAIN obj_mcp.v \cap known |-> obj_mcp.v[k]])
        density == calculate_density(planck_obj)
    IN  IF PyEqStr(GetOrNone(planck_obj, "type"), "dynamic")
        THEN IF HasKey(planck_obj, "mass") /\ ~ HasKey(planck_obj, "density")
             THEN IF IsRaise(density) THEN density
                  ELSE DictSet(planck_obj, "density", density)
             ELSE IF ~ HasKey(planck_obj, "density")
             THEN DictSet(planck_obj, "density", IntNum(1))
             ELSE planck_obj
        ELSE planck_obj

\* ElaborateObject without the test of the type
ElaborateObjectAnyType(obj_mcp) ==
    LET planck_obj == obj_mcp
        density == calculate_density(planck_obj)
    IN  IF HasKey(planck_obj, "mass") /\ ~ HasKey(planck_obj, "density")
        THEN IF IsRaise(density) THEN density
             ELSE DictSet(planck_obj, "density", density)
        ELSE IF ~ HasKey(planck_obj, "density")
        THEN DictSet(planck_obj, "density", IntNum(1))
        ELSE planck_obj

\* ElaborateObject with the mass-derived density taking precedence over an
\* explicit one
ElaborateObjectMassWins(obj_mcp) ==
    LET planck_obj == obj_mcp
        density == calculate_density(planck_obj)
    IN  IF PyEqStr(GetOrNone(planck_obj, "type"), "dynamic")
        THEN IF HasKey(planck_obj, "mass")
             THEN IF IsRaise(density) THEN density
                  ELSE DictSet(planck_obj, "density", density)
             ELSE IF ~ HasKey(planck_obj, "density")
             THEN DictSet(planck_obj, "density", IntNum(1))
             ELSE planck_obj
        ELSE planck_obj

\* lines 195-202: the copy of one object, with its density when it is dynamic
ElaborateObject(obj_mcp) ==
    LET planck_obj == obj_mcp
        density == calculate_density(planck_obj)
    IN  IF PyEqStr(GetOrNone(planck_obj, "type"), "dynamic")
        THEN IF HasKey(planck_obj, "mass") /\ ~ HasKey(planck_obj, "density")
             THEN IF IsRaise(density) THEN density
                  ELSE DictSet(planck_obj, "density", density)
             ELSE IF ~ HasKey(planck_obj, "density")
             THEN DictSet(planck_obj, "density", IntNum(1))
             ELSE planck_obj
        ELSE planck_obj

\* CompileObject without the copy: planck_obj is obj_mcp itself, and the
\* density is assigned into the caller's record
CompileObjectInPlace ==
    /\ pc = "objects"
    /\ idx <= Len(ObjectList.v)
    /\ LET planck_obj == ElaborateObject(ObjectList.v[idx])
       IN  IF IsRaise(planck_obj) THEN Fail(planck_obj)
           ELSE /\ final_scene' = [final_scene EXCEPT !.objects = Append(@, planck_obj)]
                /\ mcp_data' = IF IsList(mcp_data.v.objects)
                               THEN Dict([mcp_data.v EXCEPT !.objects =
                                            List([@.v EXCEPT ![idx] = planck_obj])])
                               ELSE mcp_data
                /\ shared' = shared \cup ObjectShares(idx, ObjectList.v[idx])
                /\ idx' = idx + 1
                /\ UNCHANGED <<G, pc, objects_map, result, given, built_with, reused, edit, calls, documents, elsewhere>>

\* lines 192-204: one round of the object loop
CompileObject ==
    /\ pc = "objects"
    /\ idx <= Len(ObjectList.v)
    /\ LET planck_obj == ElaborateObject(ObjectList.v[idx])
       IN  IF IsRaise(planck_obj) THEN Fail(planck_obj)
           ELSE /\ final_scene' = [final_scene EXCEPT !.objects = Append(@, planck_obj)]
                /\ shared' = shared \cup ObjectShares(idx, ObjectList.v[idx])
                /\ idx' = idx + 1
                /\ UNCHANGED <<G, pc, mcp_data, objects_map, result, given, built_with, reused,
                               edit, calls, documents, elsewhere>>

\* line 206: the object loop is over, the joint loop takes its list
StartJoints ==
    /\ pc = "objects"
    /\ idx > Len(ObjectList.v)
    /\ IF IsRaise(JointList) THEN Fail(JointList)
       ELSE /\ pc' = "joints"
            /\ idx' = 1
            /\ UNCHANGED <<G, mcp_data, final_scene, objects_map, result, given, shared,
                           built_with, reused,
                           edit, calls, documents, elsewhere>>

\* ResolveJoint that forwards a PulleyJoint whose ids are missing instead of
\* letting the ValueError end the call
ResolveJointLenient(joint_mcp, map) ==
    LET joint_type == GetOrNone(joint_mcp, "type")
        resolved == prepare_pulley_joint(joint_mcp, map)
    IN  IF IsRaise(joint_type) THEN joint_type
        ELSE IF PyEqStr(joint_type, "PulleyJoint")
        THEN IF IsRaise(resolved) /\ ExcClass(resolved) = "ValueError"
             THEN joint_mcp ELSE resolved
        ELSE joint_mcp

\* ResolveJoint that looks up object_a_id of every joint, whatever its type
ResolveJointChecked(joint_mcp, map) ==
    LET joint_type == GetOrNone(joint_mcp, "type")
        obj_a_id == Subscript(joint_mcp, "object_a_id")
    IN  IF IsRaise(joint_type) THEN joint_type
        ELSE IF PyEqStr(joint_type, "PulleyJoint")
        THEN prepare_pulley_joint(joint_mcp, map)
        ELSE IF IsRaise(obj_a_id) THEN obj_a_id
        ELSE IF ~ Hashable(obj_a_id) THEN TypeError("unhashable type")
        ELSE IF obj_a_id \notin DOMAIN map
        THEN Raise("ValueError", <<"Object ID referenced for joint not found">>)
        ELSE joint_mcp

\* lines 207-213: the record one joint adds to the output
ResolveJoint(joint_mcp, map) ==
    LET joint_type == GetOrNone(joint_mcp, "type")
    IN  IF IsRaise(joint_type) THEN joint_type
        ELSE IF PyEqStr(joint_type, "PulleyJoint")
        THEN prepare_pulley_joint(joint_mcp, map)
        ELSE joint_mcp

\* CompileJoint that puts the new record in front of the output joints
CompileJointInFront ==
    /\ pc = "joints"
    /\ idx <= Len(JointList.v)
    /\ LET planck_joint == ResolveJoint(JointList.v[idx], objects_map)
       IN  IF IsRaise(planck_joint) THEN Fail(planck_joint)
           ELSE /\ final_scene' = [final_scene EXCEPT !.joints = <<planck_joint>> \o @]
                /\ shared' = shared \cup JointShares(idx, JointList.v[idx])
                /\ idx' = idx + 1
                /\ UNCHANGED <<G, pc, mcp_data, objects_map, result, given, built_with, reused,
                               edit, calls, documents, elsewhere>>

\* CompileJoint that leaves out a joint that fails and goes on with the next
CompileJointSkipping ==
    /\ pc = "joints"
    /\ idx <= Len(JointList.v)
    /\ LET planck_joint == ResolveJoint(JointList.v[idx], objects_map)
       IN  /\ final_scene' = IF IsRaise(planck_joint) THEN final_scene
                              ELSE [final_scene EXCEPT !.joints = Append(@, planck_joint)]
           /\ shared' = shared \cup JointShares(idx, JointList.v[idx])
           /\ idx' = idx + 1
           /\ UNCHANGED <<G, pc, mcp_data, objects_map, result, given, built_with, reused,
                          edit, calls, documents, elsewhere>>

\* lines 206-213: one round of the joint loop
CompileJoint ==
    /\ pc = "joints"
    /\ idx <= Len(JointList.v)
    /\ LET planck_joint == ResolveJoint(JointList.v[idx], objects_map)
       IN  IF IsRaise(planck_joint) THEN Fail(planck_joint)
           ELSE /\ final_scene' = [final_scene EXCEPT !.joints = Append(@, planck_joint)]
                /\ shared' = shared \cup JointShares(idx, JointList.v[idx])
                /\ idx' = idx + 1
                /\ UNCHANGED <<G, pc, mcp_data, objects_map, result, given, built_with, reused,
                               edit, calls, documents, elsewhere>>

\* SceneValue that names the objects by the word of the engine
SceneValueBodies(scene) ==
    Dict([planck_scene |->
            Dict([world |-> scene.world,
                  bodies |-> List(scene.objects),
                  joints |-> List(scene.joints)])])

SceneValue(scene) ==
    Dict([planck_scene |->
            Dict([world |-> scene.world,
                  objects |-> List(scene.objects),
                  joints |-> List(scene.joints)])])

\* Return that keeps the gravity of the compiled world in self.G for the
\* calls to come
ReturnKeepingGravity ==
    /\ pc = "joints"
    /\ idx > Len(JointList.v)
    /\ result' = <<SceneValue(final_scene), None>>
    /\ pc' = "done"
    /\ G' = IF /\ IsDict(final_scene.world)
               /\ HasKey(final_scene.world, "gravity")
               /\ IsDict(final_scene.world.v.gravity)
               /\ HasKey(final_scene.world.v.gravity, "y")
               /\ IsNum(final_scene.world.v.gravity.v.y)
            THEN NumNeg(final_scene.world.v.gravity.v.y)
            ELSE G
    /\ final_scene' = NoScene
    /\ objects_map' = NoMap
    /\ idx' = 0
    /\ UNCHANGED <<mcp_data, given, shared, built_with, reused, edit, calls, documents, elsewhere>>

\* line 215: return {"planck_scene": final_scene}, None
Return ==
    /\ pc = "joints"
    /\ idx > Len(JointList.v)
    /\ result' = <<SceneValue(final_scene), None>>
    /\ pc' = "done"
    /\ final_scene' = NoScene
    /\ objects_map' = NoMap
    /\ idx' = 0
    /\ UNCHANGED <<G, mcp_data, given, shared, built_with, reused, edit, calls, documents, elsewhere>>


\* the object loop run to its end over objs, from position k on: the list of
\* the output records, or the first exception
RECURSIVE ElaborateAll(_, _, _)
ElaborateAll(objs, k, done) ==
    IF k > Len(objs) THEN List(done)
    ELSE LET planck_obj == ElaborateObject(objs[k])
         IN  IF IsRaise(planck_obj) THEN planck_obj
             ELSE ElaborateAll(objs, k + 1, Append(done, planck_obj))

\* the joint loop run to its end over joints, from position k on
RECURSIVE ResolveAll(_, _, _, _)
ResolveAll(joints, map, k, done) ==
    IF k > Len(joints) THEN List(done)
    ELSE LET planck_joint == ResolveJoint(joints[k], map)
         IN  IF IsRaise(planck_joint) THEN planck_joint
             ELSE ResolveAll(joints, map, k + 1, Append(done, planck_joint))

\* what a call that ends on exc gives its caller
Outcome(exc) ==
    IF Handler(exc) = "none" THEN NoResult ELSE <<None, ErrorMessage(exc)>>

\* compile_scene(doc) run from its first line to its return, alone, on a
\* compiler built with gravity_g = g
FreshResult(g, doc) ==
    LET world == Get(doc, "world", DefaultWorld(g))
        objs == Iterate(Get(doc, "objects", EmptyList))
        map == BuildObjectsMap(objs.v)
        objects == ElaborateAll(objs.v, 1, <<>>)
        joints_in == Iterate(Get(doc, "joints", EmptyList))
        joints == ResolveAll(joints_in.v, map.v, 1, <<>>)
    IN  IF IsRaise(world) THEN Outcome(world)
        ELSE IF IsRaise(objs) THEN Outcome(objs)
        ELSE IF IsRaise(map) THEN Outcome(map)
        ELSE IF IsRaise(objects) THEN Outcome(objects)
        ELSE IF IsRaise(joints_in) THEN Outcome(joints_in)
        ELSE IF IsRaise(joints) THEN Outcome(joints)
        ELSE <<SceneValue([world |-> world, objects |-> objects.v,
                           joints |-> joints.v]), None>>

-----------------------------------------------------------------------------
(* The three implementations of the compiler: the class of main.py, the     *)
(* class of physics_engine_in_class.py and the function build_scene_from_mcp *)
(* of physics_engine_reconstructed_MCP_tools.py. Their statements are those *)
(* of main.py; what differs is the text of the ValueError of the pulley and *)
(* the texts of the two except clauses. The texts of the second class are   *)
(* Chinese and are written here in ASCII, marked [zh].                      *)

MainTexts ==
    [not_found |-> "Object ID referenced for PulleyJoint not found: ",
     or |-> " or ",
     invalid_key |-> "Error processing MCP data: Invalid or missing key. Details: ",
     unexpected |-> "An unexpected error occurred in the scene compiler: "]

InClassTexts ==
    [not_found |-> "[zh] the object ID referenced for the pulley joint does not exist: ",
     or |-> " [zh]or ",
     invalid_key |-> "[zh] error processing MCP data: invalid or missing key. Details: ",
     unexpected |-> "[zh] the scene compiler met an unexpected error: "]

ToolsTexts ==
    [not_found |-> "Object ID not found for PulleyJoint creation: ",
     or |-> " or ",
     invalid_key |-> "Error processing MCP data: Invalid or missing key. Details: ",
     unexpected |-> "An unexpected error occurred in the scene compiler: "]

\* the module-level G of the tools module
ModuleG == Rat(49, 5)

\* _prepare_pulley_joint with the texts of one implementation
PreparePulleyOf(texts, joint_mcp, map) ==
    LET obj_a_id == Subscript(joint_mcp, "object_a_id")
        obj_b_id == Subscript(joint_mcp, "object_b_id")
        obj_a == MapLookup(map, obj_a_id)
        obj_b == MapLookup(map, obj_b_id)
        pos_a == Subscript(obj_a, "position")
        pos_b == Subscript(obj_b, "position")
        pulley_pos == Subscript(joint_mcp, "pulley_anchor_pos")
        length_a == RopeLength(pos_a, pulley_pos)
        length_b == RopeLength(pos_b, pulley_pos)
    IN  IF IsRaise(obj_a_id) THEN obj_a_id
        ELSE IF IsRaise(obj_b_id) THEN obj_b_id
        ELSE IF IdUnhashable(obj_a_id, obj_b_id, map)
        THEN TypeError("unhashable type")
        ELSE IF IdMissing(obj_a_id, obj_b_id, map)
        THEN Raise("ValueError",
                   <<texts.not_found>> \o PyStr(obj_a_id) \o <<texts.or>>
                   \o PyStr(obj_b_id))
        ELSE IF IsRaise(obj_a) THEN obj_a
        ELSE IF IsRaise(pos_a) THEN pos_a
        ELSE IF IsRaise(obj_b) THEN obj_b
        ELSE IF IsRaise(pos_b) THEN pos_b
        ELSE IF IsRaise(pulley_pos) THEN pulley_pos
        ELSE IF IsRaise(length_a) THEN length_a
        ELSE IF IsRaise(length_b) THEN length_b
        ELSE PulleyRecord(obj_a_id, obj_b_id, pulley_pos, length_a, length_b,
                          Get(joint_mcp, "ratio", IntNum(1)))

\* the joint loop of one implementation, from position k on
RECURSIVE JointLoopOf(_, _, _, _, _)
JointLoopOf(texts, joints, map, k, done) ==
    IF k > Len(joints) THEN List(done)
    ELSE LET joint_type == GetOrNone(joints[k], "type")
             planck_joint ==
                 IF IsRaise(joint_type) THEN joint_type
                 ELSE IF PyEqStr(joint_type, "PulleyJoint")
                 THEN PreparePulleyOf(texts, joints[k], map)
                 ELSE joints[k]
         IN  IF IsRaise(planck_joint) THEN planck_joint
             ELSE JointLoopOf(texts, joints, map, k + 1, Append(done, planck_joint))

\* OutcomeOf that takes a ValueError for an unexpected error
OutcomeOfKeyErrorOnly(texts, exc) ==
    IF ExcClass(exc) = "KeyError"
    THEN <<None, StrOf(<<texts.invalid_key>> \o ExcText(exc))>>
    ELSE <<None, StrOf(<<texts.unexpected>> \o ExcText(exc))>>

\* the except clauses of one implementation
OutcomeOf(texts, exc) ==
    IF ExcClass(exc) \in {"KeyError", "ValueError"}
    THEN <<None, StrOf(<<texts.invalid_key>> \o ExcText(exc))>>
    ELSE IF ExcClass(exc) \in ExceptionClasses
    THEN <<None, StrOf(<<texts.unexpected>> \o ExcText(exc))>>
    ELSE NoResult

\* the body of compile_scene / build_scene_from_mcp of one implementation,
\* with default gravity g
CompileOf(texts, g, doc) ==
    LET world == Get(doc, "world", DefaultWorld(g))
        objs == Iterate(Get(doc, "objects", EmptyList))
        map == BuildObjectsMap(objs.v)
        objects == ElaborateAll(objs.v, 1, <<>>)
        joints_in == Iterate(Get(doc, "joints", EmptyList))
        joints == JointLoopOf(texts, joints_in.v, map.v, 1, <<>>)
    IN  IF IsRaise(world) THEN OutcomeOf(texts, world)
        ELSE IF IsRaise(objs) THEN OutcomeOf(texts, objs)
        ELSE IF IsRaise(map) THEN OutcomeOf(texts, map)
        ELSE IF IsRaise(objects) THEN OutcomeOf(texts, objects)
        ELSE IF IsRaise(joints_in) THEN OutcomeOf(texts, joints_in)
        ELSE IF IsRaise(joints) THEN OutcomeOf(texts, joints)
        ELSE <<SceneValue([world |-> world, objects |-> objects.v,
                           joints |-> joints.v]), None>>

\* PhysicsSceneCompiler(g).compile_scene(doc) of physics_engine_in_class.py
compile_scene_in_class(g, doc) == CompileOf(InClassTexts, g, doc)

\* build_scene_from_mcp(doc)
build_scene_from_mcp(doc) == CompileOf(ToolsTexts, ModuleG, doc)

-----------------------------------------------------------------------------
(* The documents a caller passes in *)

MaxNum == 2       \* widths, heights and radii range over 0..MaxNum
MaxCoord == 1     \* grid coordinates range over 0..MaxCoord
MaxObjects == 2   \* objects of a scene document
MaxJoints == 2    \* joints of a scene document

Absent == [t |-> "absent", v |-> <<>>]

\* the dict of the fields of f that are not Absent
MkDict(f) == Dict([k \in {key \in DOMAIN f : f[key].t # "absent"} |-> f[k]])

Pos(x, y) == Dict([x |-> IntNum(x), y |-> IntNum(y)])
Nums == {IntNum(k) : k \in 0..MaxNum}
Grid == {Pos(x, y) : x \in 0..MaxCoord, y \in 0..MaxCoord}

SeqsUpTo(S, n) == UNION {[1..k -> S] : k \in 0..n}

\* (a) one object, every combination of the fields the density rule reads
TypeChoices == {Absent, Str("dynamic"), Str("static"), Str("kinematic")}
ShapeChoices == {Absent, Str("box"), Str("circle"), Str("polygon")}
MassChoices == {Absent, IntNum(3), Str("heavy")}
DensityChoices == {Absent, IntNum(42)}
SizeChoices ==
    {Absent, Str("big"), Dict([width |-> IntNum(2)]),
     Dict([width |-> Str("wide"), height |-> IntNum(2)]),
     Dict([width |-> IntNum(0), height |-> Str("tall")])}
    \cup {Dict([width |-> w, height |-> h]) : w \in Nums, h \in Nums}
RadiusChoices == {Absent, Str("wide")} \cup Nums

DensityObjects ==
    {MkDict([id |-> Str("A"), position |-> Pos(0, 0), type |-> ty, shape |-> sh,
             size |-> sz, radius |-> r, mass |-> m, density |-> dn]) :
        ty \in TypeChoices, sh \in ShapeChoices, sz \in SizeChoices,
        r \in RadiusChoices, m \in MassChoices, dn \in DensityChoices}

DensityDoc(obj) == Dict([objects |-> List(<<obj>>)])

\* (b) two objects on the grid and one pulley joint between any two ids
StaticAt(id, pos) == Dict([id |-> Str(id), type |-> Str("static"), position |-> pos])
JointIds == {Str("A"), Str("B"), Str("ghost")}
RatioChoices == {Absent, IntNum(2)}

PulleyJoints ==
    {MkDict([type |-> Str("PulleyJoint"), object_a_id |-> a, object_b_id |-> b,
             pulley_anchor_pos |-> anchor, ratio |-> ratio]) :
        a \in JointIds, b \in JointIds, anchor \in Grid, ratio \in RatioChoices}

PulleyDoc(pa, pb, j) ==
    Dict([world |-> Dict([gravity |-> Pos(0, 0)]),
          objects |-> List(<<StaticAt("A", pa), StaticAt("B", pb)>>),
          joints |-> List(<<j>>)])

\* (c) scenes of up to MaxObjects objects and MaxJoints joints, well formed
\* and malformed, drawn from two pools
ObjectPool ==
    {Dict([id |-> Str("A"), type |-> Str("static"), shape |-> Str("box"),
           size |-> Dict([width |-> IntNum(2), height |-> IntNum(1)]),
           position |-> Pos(0, 0)]),
     Dict([id |-> Str("B"), type |-> Str("dynamic"), shape |-> Str("circle"),
           radius |-> IntNum(1), mass |-> IntNum(3), position |-> Pos(3, 4)]),
     Dict([id |-> Str("A"), type |-> Str("dynamic"), position |-> Pos(0, 5),
           tag |-> Str("duplicate")]),
     Dict([id |-> Str("B"), type |-> Str("static")]),
     Dict([type |-> Str("static"), position |-> Pos(0, 0)]),
     Dict([id |-> Str("A"), type |-> Str("dynamic"), shape |-> Str("box"),
           size |-> Dict([width |-> IntNum(2), height |-> IntNum(1)]),
           mass |-> Str("heavy"), position |-> Pos(0, 0)])}

JointPool ==
    {Dict([type |-> Str("PulleyJoint"), object_a_id |-> Str("A"),
           object_b_id |-> Str("B"), pulley_anchor_pos |-> Pos(0, 0)]),
     Dict([type |-> Str("PulleyJoint"), object_a_id |-> Str("B"),
           object_b_id |-> Str("A"), pulley_anchor_pos |-> Pos(3, 0),
           ratio |-> IntNum(2), color |-> Str("red")]),
     Dict([type |-> Str("PulleyJoint"), object_a_id |-> Str("A"),
           object_b_id |-> Str("ghost"), pulley_anchor_pos |-> Pos(0, 0)]),
     Dict([type |-> Str("PulleyJoint"), object_a_id |-> Str("A"),
           pulley_anchor_pos |-> Pos(0, 0)]),
     Dict([type |-> Str("PulleyJoint"), object_a_id |-> Str("A"),
           object_b_id |-> Str("B")]),
     Dict([type |-> Str("RevoluteJoint"), object_a_id |-> Str("ghost"),
           object_b_id |-> Str("A"), speed |-> IntNum(3)]),
     Dict([object_a_id |-> Str("A"), length_a |-> IntNum(7)])}

SceneDoc(os, js) == Dict([objects |-> List(os), joints |-> List(js)])

\* (d) documents with or without a world, with the wrong containers, or with
\* records that lack keys
OneObject == List(<<StaticAt("A", Pos(0, 0))>>)
OddDocs ==
    {None, EmptyList, Str("scene"), EmptyDict,
     Dict([world |-> Dict([gravity |-> Pos(0, 0)])]),
     Dict([world |-> None, objects |-> OneObject]),
     Dict([world |-> Str("moon"), joints |-> EmptyList]),
     Dict([objects |-> None]),
     Dict([objects |-> Str("AB")]),
     Dict([objects |-> Str("")]),
     Dict([objects |-> IntNum(2)]),
     Dict([objects |-> StaticAt("A", Pos(0, 0))]),
     Dict([objects |-> List(<<Str("A")>>)]),
     Dict([objects |-> List(<<None>>)]),
     Dict([objects |-> List(<<OneObject>>)]),
     Dict([objects |-> List(<<Dict([id |-> OneObject])>>)]),
     Dict([objects |-> List(<<Dict([id |-> None, position |-> Pos(0, 0)])>>),
           joints |-> List(<<Dict([type |-> Str("PulleyJoint"), object_a_id |-> None,
                                   object_b_id |-> None,
                                   pulley_anchor_pos |-> Pos(0, 0)])>>)]),
     Dict([objects |-> OneObject, joints |-> None]),
     Dict([objects |-> OneObject, joints |-> Str("J")]),
     Dict([objects |-> OneObject, joints |-> Dict([type |-> Str("PulleyJoint")])]),
     Dict([objects |-> OneObject, joints |-> List(<<Str("PulleyJoint")>>)]),
     Dict([objects |-> OneObject, joints |-> List(<<None>>)]),
     Dict([objects |-> OneObject,
           joints |-> List(<<Dict([type |-> Str("PulleyJoint"), object_a_id |-> EmptyList,
                                   object_b_id |-> Str("A"),
                                   pulley_anchor_pos |-> Pos(0, 0)])>>)]),
     Dict([objects |-> OneObject,
           joints |-> List(<<Dict([type |-> Str("PulleyJoint"), object_a_id |-> Str("A"),
                                   object_b_id |-> EmptyDict,
                                   pulley_anchor_pos |-> Pos(0, 0)])>>)]),
     Dict([objects |-> OneObject,
           joints |-> List(<<Dict([type |-> Str("PulleyJoint"), object_a_id |-> Str("ghost"),
                                   object_b_id |-> EmptyDict,
                                   pulley_anchor_pos |-> Pos(0, 0)])>>)]),
     Dict([objects |-> OneObject,
           joints |-> List(<<Dict([type |-> Str("PulleyJoint"), object_a_id |-> Str("A"),
                                   object_b_id |-> Str("A"),
                                   pulley_anchor_pos |-> Str("top")])>>)]),
     Dict([objects |-> OneObject,
           joints |-> List(<<Dict([type |-> Str("PulleyJoint"), object_a_id |-> Str("A"),
                                   object_b_id |-> Str("A"),
                                   pulley_anchor_pos |-> Dict([x |-> IntNum(1)])])>>)]),
     Dict([objects |-> OneObject,
           joints |-> List(<<Dict([type |-> Str("PulleyJoint"), object_a_id |-> Str("A"),
                                   object_b_id |-> Str("A"),
                                   pulley_anchor_pos |->
                                       Dict([x |-> Str("left"), y |-> IntNum(0)])])>>)]),
     Dict([objects |-> List(<<StaticAt("A", Pos(0, 1)),
                              Dict([id |-> Str("C"), type |-> Str("dynamic")])>>),
           joints |-> List(<<Dict([type |-> Str("PulleyJoint"), object_a_id |-> Str("A"),
                                   object_b_id |-> Str("A"),
                                   pulley_anchor_pos |-> Pos(0, 0)])>>)]),
     Dict([objects |-> List(<<Dict([id |-> Str("A"), position |-> List(<<IntNum(0), IntNum(0)>>)])>>),
           joints |-> List(<<Dict([type |-> Str("PulleyJoint"), object_a_id |-> Str("A"),
                                   object_b_id |-> Str("A"),
                                   pulley_anchor_pos |-> Pos(0, 0)])>>)])}

\* (e) one pulley between two objects, with float coordinates of ordinary
\* and of extreme magnitude
FloatCoords == {IntNum(0), IntNum(1), Tiny, Huge}
FloatPositions == {Dict([x |-> a, y |-> b]) : a \in FloatCoords, b \in FloatCoords}
FloatDoc(pa, anchor) ==
    PulleyDoc(pa, Pos(0, 1),
              Dict([type |-> Str("PulleyJoint"), object_a_id |-> Str("A"),
                    object_b_id |-> Str("B"), pulley_anchor_pos |-> anchor]))

\* the gravity_g a compiler is built with: the default 9.8, or the caller's
GravityChoices == {Rat(49, 5), Rat(8, 5)}

MaxThreads == 2   \* threads that call compile_scene on the one instance

Threads == 1..MaxThreads

\* (f) the documents of the threads: scenes whose lookup tables differ, with
\* and without a world, and one that lacks the object its joint names
PulleyAB ==
    Dict([type |-> Str("PulleyJoint"), object_a_id |-> Str("A"),
          object_b_id |-> Str("B"), pulley_anchor_pos |-> Pos(0, 0)])
PulleyAA ==
    Dict([type |-> Str("PulleyJoint"), object_a_id |-> Str("A"),
          object_b_id |-> Str("A"), pulley_anchor_pos |-> Pos(0, 0)])
ThreadDocs ==
    {PulleyDoc(Pos(0, 0), Pos(3, 4), PulleyAB),
     SceneDoc(<<StaticAt("A", Pos(0, 1))>>, <<PulleyAA>>),
     SceneDoc(<<StaticAt("A", Pos(1, 0))>>, <<PulleyAB>>)}

\* the locals of a thread that is not in compile_scene
IdleCall ==
    [pc |-> "idle", doc |-> 0, given |-> None, final_scene |-> NoScene,
     objects_map |-> NoMap, idx |-> 0, result |-> NoResult, overlapped |-> FALSE]

-----------------------------------------------------------------------------
(* Snowflake, the ID generator of OrderManagement.py *)

MaxClock == 2     \* the clock shows 0..MaxClock milliseconds

worker_id_bits == 10
sequence_bits == 12
max_worker_id == 2 ^ worker_id_bits - 1
max_sequence == 2 ^ sequence_bits - 1

\* a | b on Python integers (two's complement, of any length)
RECURSIVE BitOr(_, _)
BitOr(a, b) ==
    IF a = 0 THEN b
    ELSE IF b = 0 THEN a
    ELSE IF a = -1 \/ b = -1 THEN -1
    ELSE 2 * BitOr(a \div 2, b \div 2) + (IF a % 2 = 1 \/ b % 2 = 1 THEN 1 ELSE 0)

\* a & b on Python integers
RECURSIVE BitAnd(_, _)
BitAnd(a, b) ==
    IF a = 0 \/ b = 0 THEN 0
    ELSE IF a = -1 THEN b
    ELSE IF b = -1 THEN a
    ELSE 2 * BitAnd(a \div 2, b \div 2) + (IF a % 2 = 1 /\ b % 2 = 1 THEN 1 ELSE 0)

\* a << k
ShiftLeft(a, k) == a * 2 ^ k

\* no Snowflake has been constructed
NoSnowflake == [worker_id |-> -1, epoch |-> 0, sequence |-> 0, last_timestamp |-> -1]
\* no generate call is running and none has returned
NotGenerating == [pc |-> "idle", waited |-> FALSE, id |-> <<>>]

\* the worker ids and the epoch of the model: the first timestamps lie
\* before the epoch
WorkerIds == {0, max_worker_id}
Epoch == 1

\* Snowflake(worker_id, epoch)
NewSnowflake ==
    /\ snowflake = NoSnowflake
    /\ \E w \in WorkerIds :
          snowflake' = [worker_id |-> w, epoch |-> Epoch, sequence |-> 0,
                        last_timestamp |-> -1]
    /\ UNCHANGED <<compilerState, orderState, registryState, clock, generating>>

\* lines 50-55: the ID of timestamp and the sequence
IdOf(sf, timestamp) ==
    LET timestamp_part == ShiftLeft(timestamp - sf.epoch, worker_id_bits + sequence_bits)
        worker_id_part == ShiftLeft(sf.worker_id, sequence_bits)
    IN  BitOr(BitOr(timestamp_part, worker_id_part), sf.sequence)

\* lines 48-55: generate records the timestamp and returns the ID
Finish(sf, timestamp) ==
    /\ snowflake' = [sf EXCEPT !.last_timestamp = timestamp]
    /\ generating' = [generating EXCEPT !.pc = "returned",
                                        !.id = <<IdOf(sf, timestamp)>>]

\* generate that goes on in the same millisecond when the sequence wraps
GenerateWithoutWait ==
    /\ snowflake # NoSnowflake
    /\ generating.pc = "idle"
    /\ LET timestamp == clock
       IN  IF timestamp < snowflake.last_timestamp
           THEN /\ generating' = [generating EXCEPT !.pc = "raised"]
                /\ UNCHANGED snowflake
           ELSE IF timestamp = snowflake.last_timestamp
           THEN Finish([snowflake EXCEPT !.sequence = BitAnd(@ + 1, max_sequence)],
                       timestamp)
           ELSE Finish([snowflake EXCEPT !.sequence = 0], timestamp)
    /\ UNCHANGED <<compilerState, orderState, registryState, clock>>

\* lines 38-48: generate reads the clock; it raises, or takes the next
\* sequence number of the millisecond, or starts a new millisecond
Generate ==
    /\ snowflake # NoSnowflake
    /\ generating.pc = "idle"
    /\ LET timestamp == clock
           sequence == BitAnd(snowflake.sequence + 1, max_sequence)
       IN  IF timestamp < snowflake.last_timestamp
           THEN /\ generating' = [generating EXCEPT !.pc = "raised"]
                /\ UNCHANGED snowflake
           ELSE IF timestamp = snowflake.last_timestamp
           THEN IF sequence = 0
                THEN /\ snowflake' = [snowflake EXCEPT !.sequence = sequence]
                     /\ generating' = [generating EXCEPT !.pc = "waiting",
                                                         !.waited = TRUE]
                ELSE Finish([snowflake EXCEPT !.sequence = sequence], timestamp)
           ELSE Finish([snowflake EXCEPT !.sequence = 0], timestamp)
    /\ UNCHANGED <<compilerState, orderState, registryState, clock>>

\* lines 61-65: wait_until_next_ms reads the clock until it is past
\* last_timestamp; a reading that is not leaves everything as it is
WaitUntilNextMs ==
    /\ generating.pc = "waiting"
    /\ LET timestamp == clock
       IN  /\ timestamp > snowflake.last_timestamp
           /\ Finish(snowflake, timestamp)
    /\ UNCHANGED <<compilerState, orderState, registryState, clock>>

\* the caller has the ID, or the exception, and may call again
TakeId ==
    /\ generating.pc \in {"returned", "raised"}
    /\ generating' = [generating EXCEPT !.pc = "idle", !.waited = FALSE]
    /\ UNCHANGED <<compilerState, orderState, registryState, snowflake, clock>>

\* a millisecond passes
Tick ==
    /\ clock < MaxClock
    /\ clock' = clock + 1
    /\ UNCHANGED <<compilerState, orderState, registryState, snowflake, generating>>

\* the system clock is set back a millisecond
ClockSetBack ==
    /\ clock > 0
    /\ clock' = clock - 1
    /\ UNCHANGED <<compilerState, orderState, registryState, snowflake, generating>>

NextSnowflake ==
    \/ NewSnowflake
    \/ Generate
    \/ WaitUntilNextMs
    \/ TakeId
    \/ Tick
    \/ ClockSetBack

-----------------------------------------------------------------------------
(* OrderManagement, the order desk. The four attributes of an item have     *)
(* Chinese names in the code; they are written here with the names of the   *)
(* parameters of add_order_item: name, concentration, sugar_level,          *)
(* temperature.                                                             *)

MaxItems == 2     \* items of an order

NoValue == "None"

\* self.valid_attributes: the menu of the backend and the three enums
valid_attributes ==
    [name |-> {"jasmine milk tea", "water chestnut tea"},
     concentration |-> {"100%", "60%"},
     sugar_level |-> {"normal sugar"},
     temperature |-> {"less ice"}]
Attributes == DOMAIN valid_attributes

\* what callers pass for a name and for a level
NameChoices == valid_attributes.name \cup {NoValue, "cola"}
ConcentrationChoices == {NoValue, "100%"}
SugarChoices == {NoValue, "normal sugar"}
TemperatureChoices == {"less ice"}

\* the ID self.id_generator.generate() gives an order; one order is current
\* at a time, and no step looks at its ID
AnOrderId == 1

\* {}: no order
NoOrder == [items |-> <<>>, _order_id |-> 0, _status |-> "{}"]
NoCall == [attributes_to_modify |-> <<>>, item_index |-> 0, before |-> NoOrder,
           returned |-> NoOrder, made |-> FALSE]
NotPlacing ==
    [pc |-> "idle", entry |-> NoOrder, submitted |-> FALSE, payment |-> FALSE,
     waited |-> "not yet", returned |-> "nothing"]

NewItem(name, concentration, sugar_level, temperature) ==
    [name |-> name, concentration |-> concentration, sugar_level |-> sugar_level,
     temperature |-> temperature]

\* a name that is given: `if name:`
Truthy(name) == name # NoValue /\ name # ""

\* lines 390-422: the order initialize_an_order leaves
InitializedOrder(name, concentration, sugar_level, temperature) ==
    [items |-> IF Truthy(name) /\ name \in valid_attributes.name
               THEN <<NewItem(name, concentration, sugar_level, temperature)>>
               ELSE <<>>,
     _order_id |-> AnOrderId,
     _status |-> "in_progress"]

\* initialize_an_order(name, concentration, sugar_level, temperature)
initialize_an_order ==
    /\ placing.pc = "idle"
    /\ \E name \in NameChoices, concentration \in ConcentrationChoices,
          sugar_level \in SugarChoices, temperature \in TemperatureChoices :
          current_order_in_session' =
              InitializedOrder(name, concentration, sugar_level, temperature)
    /\ last_call' = NoCall
    /\ UNCHANGED <<compilerState, snowflakeState, registryState, placing>>

\* add_order_item(name, concentration, sugar_level, temperature)
add_order_item ==
    /\ placing.pc = "idle"
    /\ LET fresh == \/ current_order_in_session = NoOrder
                     \/ current_order_in_session._status # "in_progress"
           order == IF fresh THEN InitializedOrder(NoValue, NoValue, NoValue, NoValue)
                    ELSE current_order_in_session
       IN  /\ Len(order.items) < MaxItems
           /\ \E name \in NameChoices, concentration \in ConcentrationChoices,
                 sugar_level \in SugarChoices, temperature \in TemperatureChoices :
                 current_order_in_session' =
                     IF name \notin valid_attributes.name THEN order
                     ELSE [order EXCEPT !.items =
                             Append(@, NewItem(name, concentration, sugar_level,
                                               temperature))]
    /\ last_call' = NoCall
    /\ UNCHANGED <<compilerState, snowflakeState, registryState, placing>>

\* the dicts callers pass as attributes_to_modify: none, one or two
\* attributes, with names and values that are valid and that are not
ModifyChoices ==
    {<<>>,
     [name |-> "water chestnut tea"],
     [name |-> "cola"],
     [concentration |-> "60%"],
     [concentration |-> "200%"],
     [size |-> "large"],
     [name |-> "jasmine milk tea", concentration |-> "60%"],
     [name |-> "water chestnut tea", concentration |-> "200%"],
     [concentration |-> "100%", sugar_level |-> "no sugar"],
     [sugar_level |-> "normal sugar", temperature |-> "less ice"]}

\* the item with every attribute of attributes_to_modify assigned
Modified(item, attributes_to_modify) ==
    [a \in DOMAIN item \cup DOMAIN attributes_to_modify |->
        IF a \in DOMAIN attributes_to_modify THEN attributes_to_modify[a] ELSE item[a]]

\* Update that assigns each attribute as soon as it has validated it
UpdateOneByOne(order, attributes_to_modify, item_index) ==
    IF order = NoOrder \/ order.items = <<>> THEN order
    ELSE IF ~ (0 <= item_index /\ item_index < Len(order.items)) THEN order
    ELSE LET valid == {a \in DOMAIN attributes_to_modify :
                          /\ a \in Attributes
                          /\ attributes_to_modify[a] \in valid_attributes[a]}
         IN  [order EXCEPT !.items[item_index + 1] =
                 Modified(@, [a \in valid |-> attributes_to_modify[a]])]

\* lines 473-515: the order modify_order_attribute leaves and returns
Update(order, attributes_to_modify, item_index) ==
    IF order = NoOrder \/ order.items = <<>> THEN order
    ELSE IF ~ (0 <= item_index /\ item_index < Len(order.items)) THEN order
    ELSE IF \E a \in DOMAIN attributes_to_modify :
                \/ a \notin Attributes
                \/ attributes_to_modify[a] \notin valid_attributes[a]
    THEN order
    ELSE [order EXCEPT !.items[item_index + 1] = Modified(@, attributes_to_modify)]

\* modify_order_attribute(attributes_to_modify, item_index)
modify_order_attribute ==
    /\ placing.pc = "idle"
    /\ \E attributes_to_modify \in ModifyChoices, item_index \in -1..MaxItems :
          LET order == Update(current_order_in_session, attributes_to_modify, item_index)
          IN  /\ current_order_in_session' = order
              /\ last_call' = [attributes_to_modify |-> attributes_to_modify,
                               item_index |-> item_index,
                               before |-> current_order_in_session,
                               returned |-> order, made |-> TRUE]
    /\ UNCHANGED <<compilerState, snowflakeState, registryState, placing>>

\* discard_current_order()
discard_current_order ==
    /\ placing.pc = "idle"
    /\ current_order_in_session # NoOrder
    /\ current_order_in_session' = NoOrder
    /\ last_call' = NoCall
    /\ UNCHANGED <<compilerState, snowflakeState, registryState, placing>>

\* lines 537-540: a current order with a status that can be sent and with
\* at least one item
Sendable(order) ==
    /\ order # NoOrder
    /\ order._status \in {"in_progress", "pending_modification", "sent_failed"}
    /\ order.items # <<>>

\* lines 546-548: the attributes the item lacks
missing_attributes(item) ==
    {attr \in Attributes : attr \notin DOMAIN item \/ item[attr] = NoValue}

\* how the wait for the payment can end: the poll saw the order paid, the
\* threshold passed, ESC was pressed, the task was cancelled, or the query
\* returned None
WaitOutcomes == {"paid", "timed out", "esc_pressed", "cancelled", "polling error"}

\* the except clause of line 575: the call returns {"error": ...}
Raised == [placing EXCEPT !.pc = "returned", !.returned = "error"]

\* CheckOrder that does not look at the attributes of the items
CheckOrderSendableOnly ==
    /\ placing.pc = "idle"
    /\ LET order == current_order_in_session
           call == [NotPlacing EXCEPT !.entry = order]
       IN  placing' =
              IF ~ Sendable(order)
              THEN [call EXCEPT !.pc = "returned", !.returned = "error"]
              ELSE [call EXCEPT !.pc = "submit"]
    /\ last_call' = NoCall
    /\ UNCHANGED <<compilerState, snowflakeState, registryState, current_order_in_session>>

\* lines 536-552: end_conversation_and_place_order checks the order
CheckOrder ==
    /\ placing.pc = "idle"
    /\ LET order == current_order_in_session
           call == [NotPlacing EXCEPT !.entry = order]
       IN  placing' =
              IF ~ Sendable(order)
              THEN [call EXCEPT !.pc = "returned", !.returned = "error"]
              ELSE IF \E i \in DOMAIN order.items : missing_attributes(order.items[i]) # {}
              THEN [call EXCEPT !.pc = "returned", !.returned = "error"]
              ELSE [call EXCEPT !.pc = "submit"]
    /\ last_call' = NoCall
    /\ UNCHANGED <<compilerState, snowflakeState, registryState, current_order_in_session>>

\* line 559: _send_order_to_terminal submits to the backend, which answers
\* or raises
SendOrder ==
    /\ placing.pc = "submit"
    /\ \/ placing' = [placing EXCEPT !.pc = "please pay", !.submitted = TRUE]
       \/ placing' = [Raised EXCEPT !.submitted = TRUE]
    /\ UNCHANGED <<compilerState, snowflakeState, registryState, current_order_in_session, last_call>>

\* lines 562-563: the voice message and the QR code, each of which may raise
AskForPayment ==
    /\ placing.pc = "please pay"
    /\ \/ placing' = [placing EXCEPT !.pc = "wait", !.payment = TRUE]
       \/ placing' = [Raised EXCEPT !.payment = TRUE]
    /\ UNCHANGED <<compilerState, snowflakeState, registryState, current_order_in_session, last_call>>

\* line 564: _wait_until_paid_or_time_passed returns True when the poll saw
\* the order paid and False otherwise (its finally clause returns, whatever
\* was raised); the call does not look at what it returns
WaitForPayment ==
    /\ placing.pc = "wait"
    /\ \E outcome \in WaitOutcomes :
          placing' = [placing EXCEPT !.pc = "drop hand", !.waited = outcome]
    /\ UNCHANGED <<compilerState, snowflakeState, registryState, current_order_in_session, last_call>>

\* lines 565-568: drop_hand, which may raise; then the status
MarkCompleted ==
    /\ placing.pc = "drop hand"
    /\ \/ /\ placing' = [placing EXCEPT !.pc = "thank you"]
          /\ current_order_in_session' =
                [current_order_in_session EXCEPT !._status = "completed"]
       \/ /\ placing' = Raised
          /\ UNCHANGED current_order_in_session
    /\ UNCHANGED <<compilerState, snowflakeState, registryState, last_call>>

\* lines 569-573: the voice message, which may raise; then the order is
\* discarded and the call returns {"success": True}
ThankAndDiscard ==
    /\ placing.pc = "thank you"
    /\ \/ /\ placing' = [placing EXCEPT !.pc = "returned", !.returned = "success"]
          /\ current_order_in_session' = NoOrder
       \/ /\ placing' = Raised
          /\ UNCHANGED current_order_in_session
    /\ UNCHANGED <<compilerState, snowflakeState, registryState, last_call>>

\* the framework has the returned dict; the next call can be made
NextTurn ==
    /\ placing.pc = "returned"
    /\ placing' = NotPlacing
    /\ UNCHANGED <<compilerState, snowflakeState, registryState, current_order_in_session, last_call>>

NextOrders ==
    \/ initialize_an_order
    \/ add_order_item
    \/ modify_order_attribute
    \/ discard_current_order
    \/ CheckOrder
    \/ SendOrder
    \/ AskForPayment
    \/ WaitForPayment
    \/ MarkCompleted
    \/ ThankAndDiscard
    \/ NextTurn

-----------------------------------------------------------------------------
(* FunctionRegistry and FunctionCallExecutor. Message texts that are        *)
(* Chinese in the code are given in English, marked [zh].                   *)

\* a Python object handed to register: whether it is callable, its
\* __name__, whether it is a coroutine function, the names of its
\* parameters and of those without a default, the parameters its docstring
\* describes in an Args block, and what its body does when it runs
Func(name, coroutine, parameters, required, described, body) ==
    [callable |-> TRUE, __name__ |-> name, coroutine |-> coroutine,
     parameters |-> parameters, required |-> required, described |-> described,
     body |-> body]

NotCallable ==
    [callable |-> FALSE, __name__ |-> "42", coroutine |-> FALSE,
     parameters |-> <<>>, required |-> {}, described |-> {}, body |-> "returns"]

\* the objects callers register
FuncPool ==
    {NotCallable,
     Func("get_weather", FALSE, <<"city">>, {"city"}, {"city"}, "returns"),
     Func("get_weather", FALSE, <<"city", "date">>, {"city", "date"}, {}, "returns"),
     Func("method", FALSE, <<"self", "x">>, {"self", "x"}, {"x"}, "returns"),
     Func("fetch_data", TRUE, <<"url">>, {"url"}, {"url"}, "returns"),
     Func("fetch_data", TRUE, <<"url">>, {"url"}, {"url"}, "raises ValueError"),
     Func("parse", TRUE, <<"text">>, {"text"}, {"text"}, "raises TypeError"),
     Func("divide", FALSE, <<"x">>, {"x"}, {"x"}, "raises ValueError"),
     Func("strict", FALSE, <<"x">>, {"x"}, {"x"}, "raises TypeError"),
     Func("now", FALSE, <<>>, {}, {}, "returns")}

NotRegistering ==
    [made |-> FALSE, func |-> NotCallable, raised |-> "nothing",
     functions |-> <<>>, function_docs |-> <<>>]
NotExecuting ==
    [made |-> FALSE, tool_name |-> "", tool_input |-> {}, invoked |-> FALSE,
     raised |-> "nothing", returned |-> <<>>]

\* d[k] = v
Store(d, k, v) == [n \in DOMAIN d \cup {k} |-> IF n = k THEN v ELSE d[n]]

\* lines 102-154: the entry of _function_docs, as far as it depends on the
\* function
DocOf(func) ==
    [name |-> func.__name__,
     properties |-> {func.parameters[i] : i \in DOMAIN func.parameters},
     required |-> func.required]

\* lines 63-155: how register(func) ends and the registry it leaves
RegisterOutcome(func) ==
    IF ~ func.callable
    THEN [raised |-> "TypeError", functions |-> functions,
          function_docs |-> function_docs]
    ELSE IF func.parameters # <<>> /\ func.parameters[1] = "self"
    THEN [raised |-> "AssertionError", functions |-> functions,
          function_docs |-> function_docs]
    ELSE LET stored == Store(functions, func.__name__, func)
         IN  IF func.required # {} /\ func.described = {}
             THEN [raised |-> "ValueError", functions |-> stored,
                   function_docs |-> function_docs]
             ELSE [raised |-> "nothing", functions |-> stored,
                   function_docs |-> Store(function_docs, func.__name__, DocOf(func))]

\* register(func)
register ==
    /\ \E func \in FuncPool :
          LET outcome == RegisterOutcome(func)
          IN  /\ functions' = outcome.functions
              /\ function_docs' = outcome.function_docs
              /\ registering' = [made |-> TRUE, func |-> func,
                                 raised |-> outcome.raised,
                                 functions |-> functions,
                                 function_docs |-> function_docs]
    /\ executing' = NotExecuting
    /\ UNCHANGED <<compilerState, snowflakeState, orderState>>

\* lines 194-201: the names list_functions_for_mcp describes
list_functions_for_mcp == {function_docs[n].name : n \in DOMAIN function_docs}

\* func(**kwargs): the keyword arguments do not fit the parameters, or the
\* body runs
CallOf(func, kwargs) ==
    IF ~ (func.required \subseteq kwargs
          /\ kwargs \subseteq {func.parameters[i] : i \in DOMAIN func.parameters})
    THEN [invoked |-> FALSE, raised |-> "TypeError"]
    ELSE IF func.body = "returns" THEN [invoked |-> TRUE, raised |-> "nothing"]
    ELSE [invoked |-> TRUE, raised |-> func.body]

Returned(dict) == [raised |-> "nothing", returned |-> dict]
Raising(exception) == [raised |-> exception, returned |-> <<>>]

\* lines 173-186: sync_call(func_name_str, **kwargs)
sync_call(func_name_str, kwargs) ==
    IF func_name_str \notin DOMAIN functions
    THEN Returned([result |-> "error", status |-> "[zh] function not found"])
    ELSE LET func == functions[func_name_str]
             call == CallOf(func, kwargs)
         IN  IF func.coroutine
             THEN Returned([result |-> "error", status |-> "[zh] is asynchronous, use async_call"])
             ELSE IF call.raised = "nothing"
             THEN Returned([result |-> "value", status |-> "success"])
             ELSE IF call.raised = "raises TypeError" \/ call.raised = "TypeError"
             THEN Returned([result |-> "None", status |-> "[zh] argument error"])
             ELSE Returned([result |-> "error", status |-> "[zh] error inside the registered function"])

\* lines 157-171: async_call(func_name_str, **kwargs); its TypeError clause
\* raises the exception again
async_call(func_name_str, kwargs) ==
    IF func_name_str \notin DOMAIN functions
    THEN Returned([result |-> "error", status |-> "[zh] function not found"])
    ELSE LET func == functions[func_name_str]
             call == CallOf(func, kwargs)
         IN  IF ~ func.coroutine
             THEN Returned([result |-> "error", status |-> "[zh] is synchronous, use sync_call"])
             ELSE IF call.raised = "nothing"
             THEN Returned([result |-> "value", status |-> "success"])
             ELSE IF call.raised = "raises TypeError" \/ call.raised = "TypeError"
             THEN Raising("TypeError")
             ELSE Returned([result |-> "error", status |-> "[zh] error inside the registered function"])

\* the tool names and keyword arguments of the calls the language model
\* asks for
ToolNames == {"get_weather", "fetch_data", "parse", "divide", "strict", "now", "no_such_tool"}
ToolInputs == {{}, {"city"}, {"url"}, {"text"}, {"x"}, {"city", "date"}, {"x", "y"}}

\* lines 19-65: how execute_function_call ends
ExecuteOutcome(tool_name, tool_input) ==
    LET return_dict == [tool_name |-> tool_name, status |-> "error",
                        result |-> "[zh] no tool of this name in the registry"]
    IN  IF tool_name \notin DOMAIN functions
        THEN [invoked |-> FALSE, raised |-> "nothing", returned |-> return_dict]
        ELSE LET func_to_call == functions[tool_name]
                 called == IF func_to_call.coroutine
                           THEN async_call(tool_name, tool_input)
                           ELSE sync_call(tool_name, tool_input)
                 invoked == CallOf(func_to_call, tool_input).invoked
             IN  IF called.raised # "nothing"
                 THEN [invoked |-> invoked, raised |-> called.raised, returned |-> <<>>]
                 ELSE [invoked |-> invoked, raised |-> "nothing",
                       returned |-> [return_dict EXCEPT
                                        !.result = called.returned.result,
                                        !.status = called.returned.status]]

\* execute_function_call(function_call_data)
execute_function_call ==
    /\ \E tool_name \in ToolNames, tool_input \in ToolInputs :
          LET outcome == ExecuteOutcome(tool_name, tool_input)
          IN  executing' = [made |-> TRUE, tool_name |-> tool_name,
                            tool_input |-> tool_input,
                            invoked |-> outcome.invoked,
                            raised |-> outcome.raised,
                            returned |-> outcome.returned]
    /\ registering' = NotRegistering
    /\ UNCHANGED <<compilerState, snowflakeState, orderState, functions, function_docs>>

NextRegistry ==
    \/ register
    \/ execute_function_call

-----------------------------------------------------------------------------
(* The compiler instance and its caller *)

\* compiler = PhysicsSceneCompiler(gravity_g): no call is running
Init ==
    /\ G \in GravityChoices
    /\ pc = "idle"
    /\ mcp_data = None
    /\ final_scene = NoScene
    /\ objects_map = NoMap
    /\ idx = 0
    /\ result = NoResult
    /\ given = None
    /\ built_with = G
    /\ reused = FALSE
    /\ shared = {}
    /\ edit = NoEdit
    /\ calls = [t \in Threads |-> IdleCall]
    /\ documents = [r \in Threads |-> None]
    /\ snowflake = NoSnowflake
    /\ clock = 0
    /\ generating = NotGenerating
    /\ current_order_in_session = NoOrder
    /\ last_call = NoCall
    /\ placing = NotPlacing
    /\ functions = <<>>
    /\ function_docs = <<>>
    /\ registering = NotRegistering
    /\ executing = NotExecuting

\* compile_scene(doc) is entered
Enter(doc) ==
    /\ mcp_data' = doc
    /\ given' = doc
    /\ pc' = "start"
    /\ UNCHANGED <<G, final_scene, objects_map, idx, result, shared, built_with, reused,
                   edit, calls, documents, elsewhere>>

\* the caller calls compile_scene with a document of one of the five kinds
Call ==
    /\ pc = "idle"
    /\ \/ \E obj \in DensityObjects : Enter(DensityDoc(obj))
       \/ \E pa \in Grid, pb \in Grid, j \in PulleyJoints : Enter(PulleyDoc(pa, pb, j))
       \/ \E os \in SeqsUpTo(ObjectPool, MaxObjects),
             js \in SeqsUpTo(JointPool, MaxJoints) : Enter(SceneDoc(os, js))
       \/ \E doc \in OddDocs : Enter(doc)
       \/ \E pa \in FloatPositions, anchor \in FloatPositions : Enter(FloatDoc(pa, anchor))

\* the caller is done with the returned pair; the compiler can be called again
Release ==
    /\ pc \in {"done", "touched"}
    /\ pc' = "idle"
    /\ mcp_data' = None
    /\ result' = NoResult
    /\ given' = None
    /\ shared' = {}
    /\ reused' = TRUE
    /\ edit' = NoEdit
    /\ UNCHANGED <<G, final_scene, objects_map, idx, built_with, calls, documents, elsewhere>>

-----------------------------------------------------------------------------
(* The caller assigns into what it holds after the call: the returned scene *)
(* and its own document. A slot is a key of a dict or an index of a list,   *)
(* named by the path of keys and indices that leads to it.                  *)

IsPrefix(p, q) == Len(p) <= Len(q) /\ SubSeq(q, 1, Len(p)) = p
After(p, q) == SubSeq(q, Len(p) + 1, Len(q))
Front(p) == SubSeq(p, 1, Len(p) - 1)
LastKey(p) == p[Len(p)]

\* the slots of a value, at every depth
RECURSIVE SlotPaths(_)
SlotPaths(x) ==
    IF IsDict(x)
    THEN UNION {{<<k>>} \cup {<<k>> \o p : p \in SlotPaths(x.v[k])} : k \in DOMAIN x.v}
    ELSE IF IsList(x)
    THEN UNION {{<<ToString(i)>>} \cup {<<ToString(i)>> \o p : p \in SlotPaths(x.v[i])} :
                   i \in DOMAIN x.v}
    ELSE {}

\* x with y assigned to the slot at path
RECURSIVE SetAt(_, _, _)
SetAt(x, path, y) ==
    IF path = <<>> THEN y
    ELSE IF IsDict(x)
    THEN Dict([x.v EXCEPT ![path[1]] = SetAt(@, Tail(path), y)])
    ELSE LET i == CHOOSE n \in DOMAIN x.v : ToString(n) = path[1]
         IN  List([x.v EXCEPT ![i] = SetAt(@, Tail(path), y)])

\* x with y assigned to every slot of paths
RECURSIVE SetAll(_, _, _)
SetAll(x, paths, y) ==
    IF paths = {} THEN x
    ELSE LET path == CHOOSE q \in paths : TRUE
         IN  SetAll(SetAt(x, path, y), paths \ {path}, y)

\* the slots of the document that are the slot `slot` of the scene: the
\* container that holds the slot is an object of the document, or lies
\* inside one
InputSlotsOf(slot) ==
    {sh[2] \o After(sh[1], Front(slot)) \o <<LastKey(slot)>> :
        sh \in {pair \in shared : IsPrefix(pair[1], Front(slot))}}

\* the slots of the scene that are the slot `slot` of the document
OutputSlotsOf(slot) ==
    {sh[1] \o After(sh[2], Front(slot)) \o <<LastKey(slot)>> :
        sh \in {pair \in shared : IsPrefix(pair[2], Front(slot))}}

Edited == Str("edited")
ReturnedScene == result[1].v.planck_scene

\* the assignment of `Edited` to the slots ins of the document and outs of
\* the scene, which are one and the same Python slot
Assign(kind, slot, ins, outs) ==
    /\ mcp_data' = SetAll(mcp_data, ins, Edited)
    /\ result' = <<Dict([planck_scene |-> SetAll(ReturnedScene, outs, Edited)]), None>>
    /\ edit' = <<kind, slot>>
    /\ pc' = "touched"
    /\ UNCHANGED <<G, final_scene, objects_map, idx, given, built_with, reused, shared, calls, documents, elsewhere>>

\* scene["objects"][i][k] = ..., or the same one or two levels further down
EditOutput ==
    /\ pc = "done"
    /\ ~ IsNone(result[1])
    /\ \E slot \in {p \in SlotPaths(ReturnedScene) : p[1] = "objects" /\ Len(p) >= 3} :
          LET ins == InputSlotsOf(slot)
          IN  Assign("output", slot, ins,
                     {slot} \cup UNION {OutputSlotsOf(q) : q \in ins})

\* mcp_data[...] = ..., at any slot of the document
EditInput ==
    /\ pc = "done"
    /\ ~ IsNone(result[1])
    /\ \E slot \in SlotPaths(mcp_data) :
          LET outs == OutputSlotsOf(slot)
          IN  Assign("input", slot,
                     {slot} \cup UNION {InputSlotsOf(q) : q \in outs}, outs)

\* the documents of the caller that edits: one object, one joint, and one
\* document with a world, two objects and two joints
EditDocs ==
    {SceneDoc(<<o>>, <<j>>) : o \in ObjectPool, j \in JointPool}
    \cup {SceneDoc(<<o>>, <<>>) : o \in ObjectPool}
    \cup {Dict([world |-> Dict([gravity |-> Pos(0, 0)]),
                objects |-> List(<<Dict([id |-> Str("A"), type |-> Str("dynamic"),
                                         shape |-> Str("box"),
                                         size |-> Dict([width |-> IntNum(2),
                                                        height |-> IntNum(1)]),
                                         mass |-> IntNum(3), position |-> Pos(0, 0)]),
                                   StaticAt("B", Pos(3, 4))>>),
                joints |-> List(<<Dict([type |-> Str("PulleyJoint"),
                                        object_a_id |-> Str("A"),
                                        object_b_id |-> Str("B"),
                                        pulley_anchor_pos |-> Pos(0, 0)]),
                                  Dict([type |-> Str("RevoluteJoint"),
                                        object_a_id |-> Str("A"),
                                        speed |-> IntNum(3)])>>)])}

CallToEdit ==
    /\ pc = "idle"
    /\ \E doc \in EditDocs : Enter(doc)

NextCaller ==
    \/ CallToEdit
    \/ BuildScene
    \/ CompileObject
    \/ StartJoints
    \/ CompileJoint
    \/ Return
    \/ EditOutput
    \/ EditInput
    \/ Release

SpecCaller == Init /\ [][NextCaller]_vars

-----------------------------------------------------------------------------
(* Threads that call compile_scene on the one instance without a lock. Each *)
(* call has its own mcp_data, final_scene and objects_map, the locals of    *)
(* its frame; self.G and the documents are what the threads share. A step   *)
(* is what one thread does between two points where another may run.        *)

InCall(t) == calls[t].pc \in {"start", "objects", "joints"}

\* the document thread t was called with
DocumentOf(t) == documents[calls[t].doc]
ThreadObjects(t) == Iterate(Get(DocumentOf(t), "objects", EmptyList))
ThreadJoints(t) == Iterate(Get(DocumentOf(t), "joints", EmptyList))

\* thread t moves to frame next; the frame notes whether another thread was
\* inside compile_scene at that moment
Advance(t, next) ==
    /\ calls' = [calls EXCEPT ![t] =
                    [next EXCEPT !.overlapped =
                        @ \/ \E u \in Threads \ {t} : InCall(u)]]
    /\ UNCHANGED <<G, pc, mcp_data, final_scene, objects_map, idx, result, given,
                   built_with, reused, shared, edit, documents, elsewhere>>

\* the frame of a call that ends on exc
Failing(frame, exc) ==
    [frame EXCEPT !.pc = IF Handler(exc) = "none" THEN "raised" ELSE "done",
                  !.result = Outcome(exc),
                  !.final_scene = NoScene, !.objects_map = NoMap, !.idx = 0]

\* no call holds a reference to cell r
FreeCell(r) == \A u \in Threads : calls[u].doc # r

\* thread t calls compile_scene with a document of its own, a new object
\* kept in the first free cell
ThreadCall(t) ==
    /\ calls[t].pc = "idle"
    /\ \E r \in Threads, doc \in ThreadDocs :
          /\ FreeCell(r)
          /\ \A q \in Threads : FreeCell(q) => r <= q
          /\ documents' = [documents EXCEPT ![r] = doc]
          /\ calls' = [calls EXCEPT ![t] =
                          [IdleCall EXCEPT !.pc = "start", !.doc = r, !.given = doc]]
    /\ UNCHANGED <<G, pc, mcp_data, final_scene, objects_map, idx, result, given,
                   built_with, reused, shared, edit, elsewhere>>

\* thread t calls compile_scene with the very document another thread is
\* compiling
ThreadCallSame(t) ==
    /\ calls[t].pc = "idle"
    /\ \E u \in Threads \ {t} :
          /\ InCall(u)
          /\ Advance(t, [IdleCall EXCEPT !.pc = "start", !.doc = calls[u].doc,
                                          !.given = DocumentOf(u)])

\* ThreadBuildScene with the lookup table kept in an attribute of the
\* instance: the table a thread builds is the table of every call
ThreadBuildSceneShared(t) ==
    /\ calls[t].pc = "start"
    /\ LET world == Get(DocumentOf(t), "world", DefaultWorld(G))
           map == BuildObjectsMap(ThreadObjects(t).v)
       IN  IF IsRaise(world) THEN Advance(t, Failing(calls[t], world))
           ELSE IF IsRaise(ThreadObjects(t)) THEN Advance(t, Failing(calls[t], ThreadObjects(t)))
           ELSE IF IsRaise(map) THEN Advance(t, Failing(calls[t], map))
           ELSE /\ calls' = [u \in Threads |->
                               IF u = t
                               THEN [calls[t] EXCEPT
                                       !.final_scene = [world |-> world, objects |-> <<>>,
                                                        joints |-> <<>>],
                                       !.objects_map = map.v, !.pc = "objects", !.idx = 1,
                                       !.overlapped = @ \/ \E w \in Threads \ {t} : InCall(w)]
                               ELSE IF InCall(u) THEN [calls[u] EXCEPT !.objects_map = map.v]
                               ELSE calls[u]]
                /\ UNCHANGED <<G, pc, mcp_data, final_scene, objects_map, idx, result,
                               given, built_with, reused, shared, edit, documents, elsewhere>>

\* lines 184-190 in thread t
ThreadBuildScene(t) ==
    /\ calls[t].pc = "start"
    /\ LET world == Get(DocumentOf(t), "world", DefaultWorld(G))
           map == BuildObjectsMap(ThreadObjects(t).v)
       IN  IF IsRaise(world) THEN Advance(t, Failing(calls[t], world))
           ELSE IF IsRaise(ThreadObjects(t)) THEN Advance(t, Failing(calls[t], ThreadObjects(t)))
           ELSE IF IsRaise(map) THEN Advance(t, Failing(calls[t], map))
           ELSE Advance(t, [calls[t] EXCEPT
                              !.final_scene = [world |-> world, objects |-> <<>>,
                                               joints |-> <<>>],
                              !.objects_map = map.v, !.pc = "objects", !.idx = 1])

\* lines 192-204 in thread t: one round of the object loop
ThreadCompileObject(t) ==
    /\ calls[t].pc = "objects"
    /\ calls[t].idx <= Len(ThreadObjects(t).v)
    /\ LET planck_obj == ElaborateObject(ThreadObjects(t).v[calls[t].idx])
       IN  IF IsRaise(planck_obj) THEN Advance(t, Failing(calls[t], planck_obj))
           ELSE Advance(t, [calls[t] EXCEPT
                              !.final_scene.objects = Append(@, planck_obj),
                              !.idx = @ + 1])

\* line 206 in thread t: the joint loop takes its list
ThreadStartJoints(t) ==
    /\ calls[t].pc = "objects"
    /\ calls[t].idx > Len(ThreadObjects(t).v)
    /\ IF IsRaise(ThreadJoints(t)) THEN Advance(t, Failing(calls[t], ThreadJoints(t)))
       ELSE Advance(t, [calls[t] EXCEPT !.pc = "joints", !.idx = 1])

\* lines 206-213 in thread t: one round of the joint loop
ThreadCompileJoint(t) ==
    /\ calls[t].pc = "joints"
    /\ calls[t].idx <= Len(ThreadJoints(t).v)
    /\ LET planck_joint == ResolveJoint(ThreadJoints(t).v[calls[t].idx],
                                        calls[t].objects_map)
       IN  IF IsRaise(planck_joint) THEN Advance(t, Failing(calls[t], planck_joint))
           ELSE Advance(t, [calls[t] EXCEPT
                              !.final_scene.joints = Append(@, planck_joint),
                              !.idx = @ + 1])

\* line 215 in thread t
ThreadReturn(t) ==
    /\ calls[t].pc = "joints"
    /\ calls[t].idx > Len(ThreadJoints(t).v)
    /\ Advance(t, [calls[t] EXCEPT
                     !.result = <<SceneValue(calls[t].final_scene), None>>,
                     !.pc = "done", !.final_scene = NoScene, !.objects_map = NoMap,
                     !.idx = 0])

\* the caller of thread t drops the returned pair and its document
ThreadRelease(t) ==
    /\ calls[t].pc = "done"
    /\ calls' = [calls EXCEPT ![t] = IdleCall]
    /\ documents' = IF \E u \in Threads \ {t} : calls[u].doc = calls[t].doc
                    THEN documents
                    ELSE [documents EXCEPT ![calls[t].doc] = None]
    /\ UNCHANGED <<G, pc, mcp_data, final_scene, objects_map, idx, result, given,
                   built_with, reused, shared, edit, elsewhere>>

NextThreads ==
    \E t \in Threads :
        \/ ThreadCall(t)
        \/ ThreadCallSame(t)
        \/ ThreadBuildScene(t)
        \/ ThreadCompileObject(t)
        \/ ThreadStartJoints(t)
        \/ ThreadCompileJoint(t)
        \/ ThreadReturn(t)
        \/ ThreadRelease(t)

SpecThreads == Init /\ [][NextThreads]_vars

-----------------------------------------------------------------------------
(* The call as a sequential program that runs to its end: from its first    *)
(* line, the interpreter executes the next step until the call returns.     *)

\* the objects and joints of the scenes below: objects with an id and a
\* position, one of them with a mass that is not a number and two with the
\* same id; pulleys between A and B, on A alone and on a missing object, and
\* a joint of another type
PhaseObjects == {o \in ObjectPool : HasKey(o, "id") /\ HasKey(o, "position")}
PhaseJoints ==
    {j \in JointPool : /\ HasKey(j, "type")
                       /\ HasKey(j, "object_b_id")
                       /\ ~ HasKey(j, "ratio")
                       /\ (j.v.type = Str("PulleyJoint") => HasKey(j, "pulley_anchor_pos"))}
    \cup {PulleyAA}

CallScene ==
    /\ pc = "idle"
    /\ \E os \in SeqsUpTo(PhaseObjects, MaxObjects), js \in SeqsUpTo(PhaseJoints, MaxJoints) :
          Enter(SceneDoc(os, js))

NextPhases ==
    \/ CallScene
    \/ BuildScene
    \/ CompileObject
    \/ StartJoints
    \/ CompileJoint
    \/ Return
    \/ Release

\* the conditions of the two loops
MoreObjects == pc = "objects" /\ idx <= Len(ObjectList.v)
MoreJoints == pc = "joints" /\ idx <= Len(JointList.v)

\* the interpreter does not stop in the middle of a call. The weak fairness
\* of a loop round is written out, with the condition of the loop for
\* ENABLED <<A>>_vars: a round that can be taken changes idx.
Fairness ==
    /\ WF_vars(BuildScene)
    /\ ([]<>(~ MoreObjects) \/ []<><<CompileObject>>_vars)
    /\ WF_vars(StartJoints)
    /\ ([]<>(~ MoreJoints) \/ []<><<CompileJoint>>_vars)
    /\ WF_vars(Return)

SpecPhases == Init /\ [][NextPhases]_vars /\ Fairness

\* the caller calls compile_scene with a document of any kind but the
\* scenes of the two pools, which the scenes of CallScene stand for
CallDocument ==
    /\ pc = "idle"
    /\ \/ \E obj \in DensityObjects : Enter(DensityDoc(obj))
       \/ \E pa \in Grid, pb \in Grid, j \in PulleyJoints : Enter(PulleyDoc(pa, pb, j))
       \/ \E os \in SeqsUpTo(PhaseObjects, MaxObjects),
             js \in SeqsUpTo(PhaseJoints, MaxJoints) : Enter(SceneDoc(os, js))
       \/ \E doc \in OddDocs : Enter(doc)
       \/ \E pa \in FloatPositions, anchor \in FloatPositions : Enter(FloatDoc(pa, anchor))

NextImplementations ==
    \/ CallDocument
    \/ BuildScene
    \/ CompileObject
    \/ StartJoints
    \/ CompileJoint
    \/ Return
    \/ Release

SpecImplementations == Init /\ [][NextImplementations]_vars

SpecSnowflake == Init /\ [][NextSnowflake]_vars

SpecOrders == Init /\ [][NextOrders]_vars

SpecRegistry == Init /\ [][NextRegistry]_vars

Next ==
    \/ Call
    \/ BuildScene
    \/ CompileObject
    \/ StartJoints
    \/ CompileJoint
    \/ Return
    \/ Release

Spec == Init /\ [][Next]_vars


-----------------------------------------------------------------------------
(* What the claims speak of: the document as the caller wrote it and the   *)
(* pair the call returned                                                  *)

Range(s) == {s[p] : p \in DOMAIN s}

Done == pc = "done"
Succeeded == Done /\ ~ IsNone(result[1]) /\ IsNone(result[2])
Failed == Done /\ IsNone(result[1]) /\ ~ IsNone(result[2])

\* the objects and joints of the input document, when it lists them
InObjects ==
    IF IsDict(mcp_data) /\ HasKey(mcp_data, "objects") /\ IsList(mcp_data.v.objects)
    THEN mcp_data.v.objects.v ELSE <<>>
InJoints ==
    IF IsDict(mcp_data) /\ HasKey(mcp_data, "joints") /\ IsList(mcp_data.v.joints)
    THEN mcp_data.v.joints.v ELSE <<>>

\* the compiled scene of a successful result
OutScene == result[1].v.planck_scene.v
OutObjects == OutScene.objects.v
OutJoints == OutScene.joints.v

FieldIs(rec, k, s) == IsDict(rec) /\ HasKey(rec, k) /\ rec.v[k] = Str(s)
IsDynamic(obj) == FieldIs(obj, "type", "dynamic")
IsPulley(joint) == FieldIs(joint, "type", "PulleyJoint")

\* C1: in every state no exception has reached the caller, and a call that
\* is over has returned a pair with exactly one None: (scene, None) with
\* scene = {"planck_scene": {world, objects, joints}}, objects and joints
\* lists, or (None, message) with message a string.
IsSceneEnvelope(x) ==
    /\ IsDict(x)
    /\ DOMAIN x.v = {"planck_scene"}
    /\ IsDict(x.v.planck_scene)
    /\ DOMAIN x.v.planck_scene.v = {"world", "objects", "joints"}
    /\ IsList(x.v.planck_scene.v.objects)
    /\ IsList(x.v.planck_scene.v.joints)

C1_NeverRaisesTwoSlots ==
    /\ pc # "raised"
    /\ Done =>
        /\ Len(result) = 2
        /\ \/ IsSceneEnvelope(result[1]) /\ IsNone(result[2])
           \/ IsNone(result[1]) /\ IsStr(result[2])

\* a malformed document (not a mapping at all) has been answered with
\* (None, message)
C1_Witness == Done /\ ~ IsDict(mcp_data) /\ IsNone(result[1]) /\ IsStr(result[2])


\* the ids of the input objects
InputIds == {InObjects[p].v.id : p \in {q \in DOMAIN InObjects :
                 IsDict(InObjects[q]) /\ HasKey(InObjects[q], "id")}}

\* the ids a PulleyJoint record gives that no input object has
MissingIds(joint) ==
    {joint.v[k] : k \in {key \in {"object_a_id", "object_b_id"} \cap DOMAIN joint.v :
                            joint.v[key] \notin InputIds}}
Dangling(joint) == IsPulley(joint) /\ MissingIds(joint) # {}

\* the message holds str(id)
NamesId(message, id) == \A piece \in Range(PyStr(id)) : piece \in Range(message.v)

\* nothing before joint j of the document fails: the lookup table is built,
\* every object is elaborated and every earlier joint is resolved
NothingFailsBefore(j) ==
    /\ ~ IsRaise(BuildObjectsMap(InObjects))
    /\ \A p \in DOMAIN InObjects : ~ IsRaise(ElaborateObject(InObjects[p]))
    /\ \A q \in 1..(j - 1) :
          ~ IsRaise(ResolveJoint(InJoints[q], BuildObjectsMap(InObjects).v))

\* C2 as stated: a PulleyJoint with an id that no input object has makes the
\* call return (None, message) with message naming the missing id.
C2_MessageAlwaysNamesId ==
    Done => \A j \in DOMAIN InJoints :
        Dangling(InJoints[j]) =>
            /\ Failed
            /\ \A id \in MissingIds(InJoints[j]) : NamesId(result[2], id)

\* C2 as amended: a PulleyJoint with an id that no input object has makes the
\* call return (None, message), never a scene or a partial list; the message
\* names the missing id when that joint is the first item of the document to
\* fail and carries both ids as strings.
C2_DanglingIdFailsWholeCall ==
    Done => \A j \in DOMAIN InJoints :
        Dangling(InJoints[j]) =>
            /\ Failed
            /\ IsStr(result[2])
            /\ ( /\ NothingFailsBefore(j)
                 /\ \A k \in {"object_a_id", "object_b_id"} :
                       HasKey(InJoints[j], k) /\ IsStr(InJoints[j].v[k]) )
               => \A id \in MissingIds(InJoints[j]) : NamesId(result[2], id)

\* two valid objects, a valid first joint, and a second joint that names
\* "ghost": the call failed and the message names "ghost"
C2_Witness ==
    /\ Failed
    /\ Len(InObjects) = 2
    /\ Len(InJoints) = 2
    /\ NothingFailsBefore(2)
    /\ IsPulley(InJoints[1])
    /\ Dangling(InJoints[2])
    /\ NamesId(result[2], Str("ghost"))

\* C3: explicit density wins: in a successful result every dynamic object
\* that came with a `density` key keeps that density, whatever its mass,
\* shape, size or radius; and such an object never makes the call fail (its
\* mass and dimensions are not read): a document of such objects with
\* usable ids and no joints compiles.
HasExplicitDensity(obj) == IsDict(obj) /\ IsDynamic(obj) /\ HasKey(obj, "density")
UsableId(obj) == IsDict(obj) /\ HasKey(obj, "id") /\ obj.v.id.t \in {"str", "num", "none"}

C3_ExplicitDensityWins ==
    /\ Succeeded =>
          \A p \in DOMAIN InObjects :
             HasExplicitDensity(InObjects[p]) =>
                /\ p \in DOMAIN OutObjects
                /\ HasKey(OutObjects[p], "density")
                /\ OutObjects[p].v.density = InObjects[p].v.density
    /\ ( /\ Done
         /\ InObjects # <<>>
         /\ InJoints = <<>>
         /\ \A p \in DOMAIN InObjects :
               HasExplicitDensity(InObjects[p]) /\ UsableId(InObjects[p]) )
       => Succeeded

\* a dynamic box with density 42, a numeric mass and a size has compiled
C3_Witness ==
    /\ Succeeded
    /\ Len(InObjects) = 1
    /\ HasExplicitDensity(InObjects[1])
    /\ FieldIs(InObjects[1], "shape", "box")
    /\ HasKey(InObjects[1], "mass") /\ InObjects[1].v.mass = IntNum(3)
    /\ HasKey(InObjects[1], "size") /\ InObjects[1].v.size = Dict([width |-> IntNum(2), height |-> IntNum(1)])
    /\ OutObjects[1].v.density = IntNum(42)


\* C4: in a successful result every dynamic object that came without a
\* `density` key has one: 1.0 when it has no `mass`; otherwise its dimensions
\* are numbers and, when the area they give is not 0, density * area = mass,
\* with area = width * height for a box (1 * 1 without `size`),
\* pi * radius^2 for a circle (radius 1 without `radius`) and 1 for any
\* other or missing shape.
NeedsDensity(obj) == IsDict(obj) /\ IsDynamic(obj) /\ ~ HasKey(obj, "density")

NumericField(rec, k) == IsDict(rec) /\ HasKey(rec, k) /\ IsNum(rec.v[k])

\* the dimensions the area of obj is taken from are numbers
AreaDefined(obj) ==
    IF FieldIs(obj, "shape", "box")
    THEN HasKey(obj, "size") =>
            NumericField(obj.v.size, "width") /\ NumericField(obj.v.size, "height")
    ELSE IF FieldIs(obj, "shape", "circle")
    THEN HasKey(obj, "radius") => IsNum(obj.v.radius)
    ELSE TRUE

\* the planar area of obj as the specification gives it
ClaimedArea(obj) ==
    IF FieldIs(obj, "shape", "box")
    THEN IF HasKey(obj, "size")
         THEN NumMul(obj.v.size.v.width, obj.v.size.v.height)
         ELSE IntNum(1)
    ELSE IF FieldIs(obj, "shape", "circle")
    THEN IF HasKey(obj, "radius")
         THEN NumMul(Pi, NumMul(obj.v.radius, obj.v.radius))
         ELSE Pi
    ELSE IntNum(1)

C4_DerivedDensity ==
    Succeeded =>
        \A p \in DOMAIN InObjects :
            NeedsDensity(InObjects[p]) =>
                /\ p \in DOMAIN OutObjects
                /\ HasKey(OutObjects[p], "density")
                /\ IF ~ HasKey(InObjects[p], "mass")
                   THEN OutObjects[p].v.density = IntNum(1)
                   ELSE /\ AreaDefined(InObjects[p])
                        /\ ~ IsZero(ClaimedArea(InObjects[p])) =>
                              /\ IsNum(InObjects[p].v.mass)
                              /\ IsNum(OutObjects[p].v.density)
                              /\ NumMul(OutObjects[p].v.density, ClaimedArea(InObjects[p]))
                                    = InObjects[p].v.mass

\* a dynamic circle of radius 2 and mass 3 has compiled to density 3/(4 pi)
C4_Witness ==
    /\ Succeeded
    /\ Len(InObjects) = 1
    /\ NeedsDensity(InObjects[1])
    /\ FieldIs(InObjects[1], "shape", "circle")
    /\ NumericField(InObjects[1], "radius") /\ InObjects[1].v.radius = IntNum(2)
    /\ NumericField(InObjects[1], "mass") /\ InObjects[1].v.mass = IntNum(3)
    /\ OutObjects[1].v.density = Real(3, 4, -1, 1, 0)

\* C5: in a successful result an object whose type is not "dynamic" (static,
\* another string, no type) has a `density` key exactly when its input
\* record had one, also when `mass` is set.
C5_NoDensityUnlessDynamic ==
    Succeeded =>
        \A p \in DOMAIN InObjects :
            (IsDict(InObjects[p]) /\ ~ IsDynamic(InObjects[p])) =>
                /\ p \in DOMAIN OutObjects
                /\ HasKey(OutObjects[p], "density") <=> HasKey(InObjects[p], "density")

\* a static object with a mass and no density has compiled without a density
C5_Witness ==
    /\ Succeeded
    /\ Len(InObjects) = 1
    /\ FieldIs(InObjects[1], "type", "static")
    /\ HasKey(InObjects[1], "mass")
    /\ ~ HasKey(InObjects[1], "density")
    /\ ~ HasKey(OutObjects[1], "density")

\* C6: a dynamic object with `mass`, without `density`, whose area is exactly
\* 0 (a circle of radius 0, a box of width 0 or height 0) gets density 1.0;
\* a document of such objects with usable ids and no joints compiles; and no
\* call ends on a division by zero.
ZeroArea(obj) ==
    /\ NeedsDensity(obj)
    /\ HasKey(obj, "mass")
    /\ \/ /\ FieldIs(obj, "shape", "box")
          /\ HasKey(obj, "size")
          /\ NumericField(obj.v.size, "width")
          /\ NumericField(obj.v.size, "height")
          /\ IsZero(obj.v.size.v.width) \/ IsZero(obj.v.size.v.height)
       \/ /\ FieldIs(obj, "shape", "circle")
          /\ NumericField(obj, "radius")
          /\ IsZero(obj.v.radius)

C6_DegenerateAreaGuard ==
    /\ Succeeded =>
          \A p \in DOMAIN InObjects :
              ZeroArea(InObjects[p]) =>
                  /\ p \in DOMAIN OutObjects
                  /\ HasKey(OutObjects[p], "density")
                  /\ OutObjects[p].v.density = IntNum(1)
    /\ ( /\ Done
         /\ InObjects # <<>>
         /\ InJoints = <<>>
         /\ \A p \in DOMAIN InObjects :
               ZeroArea(InObjects[p]) /\ UsableId(InObjects[p]) )
       => Succeeded
    /\ Failed => "division by zero" \notin Range(result[2].v)

\* a dynamic circle of radius 0 with mass 3 has compiled to density 1.0
C6_Witness ==
    /\ Succeeded
    /\ Len(InObjects) = 1
    /\ ZeroArea(InObjects[1])
    /\ FieldIs(InObjects[1], "shape", "circle")
    /\ InObjects[1].v.mass = IntNum(3)
    /\ OutObjects[1].v.density = IntNum(1)


\* the input object an id names: the one objects_map holds, the last with it
Named(id) ==
    LET ps == {p \in DOMAIN InObjects :
                  /\ IsDict(InObjects[p])
                  /\ HasKey(InObjects[p], "id")
                  /\ InObjects[p].v.id = id}
    IN  InObjects[CHOOSE p \in ps : \A q \in ps : q <= p]

NonNegative(a) == a.v.n >= 0
Coincide(pos, anchor) == pos.v.x = anchor.v.x /\ pos.v.y = anchor.v.y

\* both coordinates are of ordinary magnitude
Ordinary(pos) == pos.v.x.v.s = 0 /\ pos.v.y.v.s = 0

\* a * a, for a rational a or the root of one
SquareOf(a) ==
    IF a.v.r = 2 THEN Real(a.v.n, a.v.d, 0, 1, a.v.s) ELSE NumMul(a, a)

\* dx^2 + dy^2 from pos to anchor, exact for ordinary coordinates
DistanceSquared(pos, anchor) ==
    LET dx == NumSub(pos.v.x, anchor.v.x)
        dy == NumSub(pos.v.y, anchor.v.y)
    IN  NumAdd(NumMul(dx, dx), NumMul(dy, dy))

\* length is the distance from pos to anchor: not negative, 0 exactly when
\* the two coincide, and with square dx^2 + dy^2
IsDistance(length, pos, anchor) ==
    /\ IsNum(length)
    /\ NonNegative(length)
    /\ IsZero(length) <=> Coincide(pos, anchor)
    /\ (Ordinary(pos) /\ Ordinary(anchor)) =>
          SquareOf(length) = DistanceSquared(pos, anchor)

\* C7 as stated: in a successful result every PulleyJoint has length_a
\* (length_b) equal to the Euclidean distance from the input position of the
\* object its object_a_id (object_b_id) names to its pulley_anchor_pos: not
\* negative, 0 exactly when position and anchor coincide, and fixed by the
\* joint and the input objects alone.
C7_LengthsAreDistances ==
    Succeeded =>
        \A j \in DOMAIN InJoints :
            IsPulley(InJoints[j]) =>
                LET joint == InJoints[j].v
                    out == OutJoints[j].v
                IN  /\ IsDistance(out.length_a, Named(joint.object_a_id).v.position,
                                  joint.pulley_anchor_pos)
                    /\ IsDistance(out.length_b, Named(joint.object_b_id).v.position,
                                  joint.pulley_anchor_pos)

\* C7, what the code does give: the same, for the joints whose anchor and
\* whose two objects have coordinates of ordinary magnitude.
C7_OrdinaryLengthsAreDistances ==
    Succeeded =>
        \A j \in DOMAIN InJoints :
            IsPulley(InJoints[j]) =>
                LET joint == InJoints[j].v
                    out == OutJoints[j].v
                    pos_a == Named(joint.object_a_id).v.position
                    pos_b == Named(joint.object_b_id).v.position
                IN  Ordinary(joint.pulley_anchor_pos) =>
                        /\ Ordinary(pos_a) =>
                              IsDistance(out.length_a, pos_a, joint.pulley_anchor_pos)
                        /\ Ordinary(pos_b) =>
                              IsDistance(out.length_b, pos_b, joint.pulley_anchor_pos)

\* object A at (1e-200, 0), the anchor at (0, 0): the call has succeeded with
\* length_a = 0.0
C7_Witness ==
    /\ Succeeded
    /\ Len(InJoints) = 1
    /\ IsPulley(InJoints[1])
    /\ InJoints[1].v.object_a_id = Str("A")
    /\ InJoints[1].v.pulley_anchor_pos = Pos(0, 0)
    /\ Named(Str("A")).v.position = Dict([x |-> Tiny, y |-> IntNum(0)])
    /\ IsZero(OutJoints[1].v.length_a)

\* C8: in a successful result the record of a PulleyJoint has exactly the
\* keys type, object_a_id, object_b_id, ground_anchor_a, ground_anchor_b,
\* local_anchor_a, local_anchor_b, length_a, length_b, ratio: the type is
\* "PulleyJoint", the ids are the input's, both ground anchors are the input
\* pulley_anchor_pos, both local anchors are {x: 0, y: 0}, the lengths are
\* numbers and ratio is the input ratio, or 1.0 when the input has none.
PulleyKeys ==
    {"type", "object_a_id", "object_b_id", "ground_anchor_a", "ground_anchor_b",
     "local_anchor_a", "local_anchor_b", "length_a", "length_b", "ratio"}

C8_PulleyRecordExact ==
    Succeeded =>
        \A j \in DOMAIN InJoints :
            IsPulley(InJoints[j]) =>
                LET joint == InJoints[j].v
                    out == OutJoints[j]
                IN  /\ IsDict(out)
                    /\ DOMAIN out.v = PulleyKeys
                    /\ out.v.type = Str("PulleyJoint")
                    /\ out.v.object_a_id = joint.object_a_id
                    /\ out.v.object_b_id = joint.object_b_id
                    /\ out.v.ground_anchor_a = joint.pulley_anchor_pos
                    /\ out.v.ground_anchor_b = joint.pulley_anchor_pos
                    /\ out.v.local_anchor_a = Pos(0, 0)
                    /\ out.v.local_anchor_b = Pos(0, 0)
                    /\ IsNum(out.v.length_a)
                    /\ IsNum(out.v.length_b)
                    /\ out.v.ratio = IF "ratio" \in DOMAIN joint THEN joint.ratio
                                     ELSE IntNum(1)

\* a PulleyJoint with ratio 2 and a field `color` has been resolved, and so
\* has one without a ratio
C8_Witness ==
    /\ Succeeded
    /\ \E j \in DOMAIN InJoints :
          /\ IsPulley(InJoints[j])
          /\ HasKey(InJoints[j], "color")
          /\ OutJoints[j].v.ratio = IntNum(2)
    /\ \E j \in DOMAIN InJoints :
          /\ IsPulley(InJoints[j])
          /\ ~ HasKey(InJoints[j], "ratio")
          /\ OutJoints[j].v.ratio = IntNum(1)

\* C9: in a successful result every joint record whose type is not
\* "PulleyJoint", or that has no type, stands in the output joints with the
\* keys and values of the input; and when the objects compile, a document
\* whose joints are all such records compiles, whatever ids they refer to.
PassThrough(joint) == IsDict(joint) /\ ~ IsPulley(joint)

ObjectsCompile ==
    /\ IsDict(mcp_data)
    /\ HasKey(mcp_data, "objects") => IsList(mcp_data.v.objects)
    /\ NothingFailsBefore(1)

C9_OtherJointsPassThrough ==
    /\ Succeeded =>
          \A j \in DOMAIN InJoints :
              PassThrough(InJoints[j]) =>
                  /\ j \in DOMAIN OutJoints
                  /\ OutJoints[j] = InJoints[j]
    /\ ( /\ Done
         /\ ObjectsCompile
         /\ InJoints # <<>>
         /\ \A j \in DOMAIN InJoints : PassThrough(InJoints[j]) )
       => Succeeded

\* a RevoluteJoint that refers to an id no object has, and a joint without a
\* type, have been passed through
C9_Witness ==
    /\ Succeeded
    /\ \E j \in DOMAIN InJoints :
          /\ FieldIs(InJoints[j], "type", "RevoluteJoint")
          /\ InJoints[j].v.object_a_id \notin InputIds
          /\ OutJoints[j] = InJoints[j]
    /\ \E j \in DOMAIN InJoints :
          /\ IsDict(InJoints[j])
          /\ ~ HasKey(InJoints[j], "type")
          /\ OutJoints[j] = InJoints[j]

\* C10: in a successful result the output objects are as many as the input
\* objects and the i-th is the elaboration of the i-th input object; the
\* output joints are as many as the input joints and the j-th is the
\* resolution or the pass-through of the j-th input joint.
C10_OrderAndLengthKept ==
    Succeeded =>
        /\ Len(OutObjects) = Len(InObjects)
        /\ \A i \in DOMAIN InObjects :
              /\ OutObjects[i] = ElaborateObject(InObjects[i])
              /\ OutObjects[i].v.id = InObjects[i].v.id
        /\ Len(OutJoints) = Len(InJoints)
        /\ \A j \in DOMAIN InJoints :
              /\ OutJoints[j] = ResolveJoint(InJoints[j], BuildObjectsMap(InObjects).v)
              /\ IsPulley(OutJoints[j]) <=> IsPulley(InJoints[j])

\* two objects with different ids, then a PulleyJoint followed by a
\* RevoluteJoint, have compiled
C10_Witness ==
    /\ Succeeded
    /\ Len(InObjects) = 2
    /\ InObjects[1].v.id # InObjects[2].v.id
    /\ Len(InJoints) = 2
    /\ IsPulley(InJoints[1])
    /\ FieldIs(InJoints[2], "type", "RevoluteJoint")
    /\ IsPulley(OutJoints[1])
    /\ OutJoints[2] = InJoints[2]


\* C11: in a successful result `world` is the input's `world`, whatever it
\* holds, when the document has the key, and {gravity: {x: 0, y: -G}} when it
\* has not, G being the constant the compiler was built with.
C11_WorldVerbatimOrDefault ==
    Succeeded =>
        OutScene.world =
            IF HasKey(mcp_data, "world") THEN mcp_data.v.world
            ELSE Dict([gravity |-> Dict([x |-> IntNum(0), y |-> NumNeg(G)])])

\* a compiler built with gravity_g = 1.6 has compiled a document without a
\* world
C11_Witness ==
    /\ Succeeded
    /\ ~ HasKey(mcp_data, "world")
    /\ G = Rat(8, 5)
    /\ OutScene.world.v.gravity.v.y = Rat(-8, 5)

\* C12: in a successful result every key of an input object is in its output
\* record with the same value, and the output record has no other key than
\* `density`, which is new only for a dynamic object.
C12_ObjectFieldsKept ==
    Succeeded =>
        \A i \in DOMAIN InObjects :
            /\ i \in DOMAIN OutObjects
            /\ IsDict(InObjects[i]) /\ IsDict(OutObjects[i])
            /\ \A k \in DOMAIN InObjects[i].v : 
                  /\ k \in DOMAIN OutObjects[i].v
                  /\ OutObjects[i].v[k] = InObjects[i].v[k]
            /\ DOMAIN OutObjects[i].v \subseteq DOMAIN InObjects[i].v \cup {"density"}
            /\ DOMAIN OutObjects[i].v # DOMAIN InObjects[i].v => IsDynamic(InObjects[i])

\* a dynamic object with a field `tag` has come out with the tag and a new
\* density
C12_Witness ==
    /\ Succeeded
    /\ \E i \in DOMAIN InObjects :
          /\ HasKey(InObjects[i], "tag")
          /\ ~ HasKey(InObjects[i], "density")
          /\ HasKey(OutObjects[i], "density")
          /\ OutObjects[i].v.tag = InObjects[i].v.tag


\* C13: while compile_scene runs and when it has returned, with a scene or
\* with an error, the caller's document is what it was when the call was
\* entered: its world, every object record (none has gained a density) and
\* every joint record.
Running == pc \in {"start", "objects", "joints"}

C13_InputNotMutated ==
    (Running \/ Done) =>
        /\ mcp_data = given
        /\ \A i \in DOMAIN InObjects :
              IsDict(InObjects[i]) =>
                  DOMAIN InObjects[i].v = DOMAIN given.v.objects.v[i].v

\* a dynamic object without a density has been compiled, its output record
\* has a density and its input record has none
C13_Witness ==
    /\ Succeeded
    /\ mcp_data = given
    /\ \E i \in DOMAIN InObjects :
          /\ NeedsDensity(InObjects[i])
          /\ HasKey(OutObjects[i], "density")
          /\ ~ HasKey(given.v.objects.v[i], "density")


\* C14: on an instance that has or has not served calls before, a call on a
\* document returns what a call on that document returns on a fresh compiler
\* built with the same gravity_g; between calls the instance holds nothing
\* but that constant.
C14_SameResultAsFreshInstance ==
    /\ G = built_with
    /\ Done => result = FreshResult(built_with, given)
    /\ pc = "raised" => FreshResult(built_with, given) = NoResult
    /\ pc = "idle" =>
          /\ mcp_data = None /\ result = NoResult
          /\ final_scene = NoScene /\ objects_map = NoMap /\ idx = 0

\* an instance that has served a call before has compiled a document that has
\* joints and no world
C14_Witness ==
    /\ reused
    /\ Succeeded
    /\ ~ HasKey(given, "world")
    /\ InJoints # <<>>


\* the ids of the objects of a successful result
OutputIds == {OutObjects[p].v.id : p \in {q \in DOMAIN OutObjects :
                  IsDict(OutObjects[q]) /\ HasKey(OutObjects[q], "id")}}

\* the object ids a joint record refers to
ReferencedIds(joint) ==
    IF IsDict(joint)
    THEN {joint.v[k] : k \in {"object_a_id", "object_b_id"} \cap DOMAIN joint.v}
    ELSE {}

\* C15 as stated: in a successful result every id a joint of the output
\* refers to, whatever the type of the joint, is the id of an output object;
\* and a document in which a joint refers to an id no object has fails.
C15_EveryJointIdResolves ==
    /\ Succeeded =>
          \A j \in DOMAIN OutJoints : ReferencedIds(OutJoints[j]) \subseteq OutputIds
    /\ (Done /\ \E j \in DOMAIN InJoints : ~ (ReferencedIds(InJoints[j]) \subseteq InputIds))
       => Failed

\* C15, amended: in a successful result every id a PulleyJoint of the output
\* refers to is the id of an output object, and a document in which a
\* PulleyJoint refers to an id no object has fails; the ids of a joint of any
\* other type are not looked at, and the joint stands in the output as it
\* came.
C15_PulleyIdsResolve ==
    /\ Succeeded =>
          \A j \in DOMAIN OutJoints :
              IF IsPulley(InJoints[j])
              THEN /\ IsPulley(OutJoints[j])
                   /\ {"object_a_id", "object_b_id"} \subseteq DOMAIN OutJoints[j].v
                   /\ ReferencedIds(OutJoints[j]) \subseteq OutputIds
              ELSE ReferencedIds(OutJoints[j]) = ReferencedIds(InJoints[j])
    /\ (Done /\ \E j \in DOMAIN InJoints :
                   IsPulley(InJoints[j]) /\ ~ (ReferencedIds(InJoints[j]) \subseteq InputIds))
       => Failed

\* a document with a PulleyJoint between two of its objects and a
\* RevoluteJoint that refers to an id no object has, has compiled
C15_Witness ==
    /\ Succeeded
    /\ \E j \in DOMAIN InJoints :
          IsPulley(InJoints[j]) /\ ReferencedIds(OutJoints[j]) \subseteq OutputIds
    /\ \E j \in DOMAIN InJoints :
          ~ IsPulley(InJoints[j]) /\ ~ (ReferencedIds(OutJoints[j]) \subseteq OutputIds)


\* an object record that omits one of keys
Omits(obj, keys) == IsDict(obj) /\ ~ (keys \subseteq DOMAIN obj.v)

\* a finished call on a document whose objects are records, one at least
\* omitting one of keys, none failing in its density, with ids that can be
\* looked up, and whose joints, if any, are records that are no PulleyJoints
OmissionCase(keys) ==
    /\ Done
    /\ IsDict(given)
    /\ HasKey(given, "objects") /\ IsList(given.v.objects)
    /\ \A i \in DOMAIN InObjects :
          /\ IsDict(InObjects[i])
          /\ HasKey(InObjects[i], "id") => Hashable(InObjects[i].v.id)
          /\ ~ IsRaise(ElaborateObject(InObjects[i]))
    /\ \E i \in DOMAIN InObjects : Omits(InObjects[i], keys)
    /\ HasKey(given, "joints") => IsList(given.v.joints)
    /\ \A j \in DOMAIN InJoints : PassThrough(InJoints[j])

\* the call has succeeded and every object that omits one of keys has come
\* out with the fields it had, and a density where the dynamic rule gives one
EmittedAsGiven(keys) ==
    /\ Succeeded
    /\ \A i \in DOMAIN InObjects :
          Omits(InObjects[i], keys) =>
              /\ \A k \in DOMAIN InObjects[i].v : 
                    k \in DOMAIN OutObjects[i].v /\ OutObjects[i].v[k] = InObjects[i].v[k]
              /\ DOMAIN OutObjects[i].v =
                    DOMAIN InObjects[i].v \cup
                        (IF IsDynamic(InObjects[i]) THEN {"density"} ELSE {})

\* C16 as stated: a document whose objects omit any of id, type, shape,
\* position, and that no PulleyJoint refers to, compiles, and each such
\* object is emitted with the fields it had (and a density where the dynamic
\* rule applies).
C16_FourKeysOptional ==
    OmissionCase({"id", "type", "shape", "position"}) =>
        EmittedAsGiven({"id", "type", "shape", "position"})

\* C16, what the code does give: the same for type, shape and position, in a
\* document whose objects all have an id.
C16_ThreeKeysOptional ==
    ( /\ OmissionCase({"type", "shape", "position"})
      /\ \A i \in DOMAIN InObjects : HasKey(InObjects[i], "id") )
    => EmittedAsGiven({"type", "shape", "position"})

\* a document with one object, a record without id, and no joint has ended
\* on the missing-key error
C16_Witness ==
    /\ Failed
    /\ OmissionCase({"id"})
    /\ Len(InObjects) = 1
    /\ InJoints = <<>>
    /\ result[2] = StrOf(<<"Error processing MCP data: Invalid or missing key. Details: ",
                           "'", "id", "'">>)


\* a dynamic object without density whose mass, or whose width, height or
\* radius that its area is taken from, is no number
TypeFault(obj) ==
    /\ NeedsDensity(obj)
    /\ HasKey(obj, "mass")
    /\ \/ ~ IsNum(obj.v.mass)
       \/ /\ FieldIs(obj, "shape", "box")
          /\ HasKey(obj, "size") /\ IsDict(obj.v.size)
          /\ {"width", "height"} \subseteq DOMAIN obj.v.size.v
          /\ ~ IsNum(obj.v.size.v.width) \/ ~ IsNum(obj.v.size.v.height)
       \/ /\ FieldIs(obj, "shape", "circle")
          /\ HasKey(obj, "radius")
          /\ ~ IsNum(obj.v.radius)

\* object i is the first thing of the document that can fail: the document
\* is a dict with a list of objects, the lookup table is built and the
\* objects before i are elaborated
FirstToFail(i) ==
    /\ IsDict(given)
    /\ i \in DOMAIN InObjects
    /\ ~ IsRaise(BuildObjectsMap(InObjects))
    /\ \A q \in 1..(i - 1) : ~ IsRaise(ElaborateObject(InObjects[q]))

\* the call has returned (None, the generic message)
FailedUnexpected ==
    /\ Failed
    /\ IsStr(result[2])
    /\ result[2].v[1] = "An unexpected error occurred in the scene compiler: "

\* the dimensions obj's area is taken from are there
DimensionsPresent(obj) ==
    (FieldIs(obj, "shape", "box") /\ HasKey(obj, "size")) =>
        (IsDict(obj.v.size) => {"width", "height"} \subseteq DOMAIN obj.v.size.v)

\* C17 as stated: when a dynamic object without density has a mass that is
\* no number (or a width, height or radius, used for its area, that is no
\* number), the call returns (None, message) with the generic message of an
\* unexpected error.
C17_TypeErrorsAlwaysFail ==
    \A i \in DOMAIN InObjects :
        (Done /\ FirstToFail(i) /\ TypeFault(InObjects[i])) => FailedUnexpected

\* C17, what the code does give: the same, unless the dimensions are numbers
\* that give the area 0, or one of them is missing.
C17_TypeErrorsFailWhenDivided ==
    \A i \in DOMAIN InObjects :
        ( /\ Done /\ FirstToFail(i) /\ TypeFault(InObjects[i])
          /\ DimensionsPresent(InObjects[i])
          /\ ~ (AreaDefined(InObjects[i]) /\ IsZero(ClaimedArea(InObjects[i]))) )
        => FailedUnexpected

\* a dynamic circle of radius 0 whose mass is the string "heavy" has compiled,
\* to density 1.0
C17_Witness ==
    /\ Succeeded
    /\ Len(InObjects) = 1
    /\ TypeFault(InObjects[1])
    /\ FieldIs(InObjects[1], "shape", "circle")
    /\ InObjects[1].v.mass = Str("heavy")
    /\ InObjects[1].v.radius = IntNum(0)
    /\ OutObjects[1].v.density = IntNum(1)


\* a PulleyJoint without one of the keys the compiler indexes it by
LacksKey(joint) ==
    /\ IsPulley(joint)
    /\ ~ ({"object_a_id", "object_b_id", "pulley_anchor_pos"} \subseteq DOMAIN joint.v)

\* a PulleyJoint that refers to an object that has no position
RefersToUnplaced(joint) ==
    /\ IsPulley(joint)
    /\ \E id \in ReferencedIds(joint) \cap InputIds : ~ HasKey(Named(id), "position")

\* the call has returned (None, the message of a missing or invalid key)
FailedOnKey ==
    /\ Failed
    /\ IsStr(result[2])
    /\ result[2].v[1] = "Error processing MCP data: Invalid or missing key. Details: "

\* C18: a PulleyJoint that lacks object_a_id, object_b_id or
\* pulley_anchor_pos, or that refers to an object without position, makes
\* the call return (None, message), the missing-key message when the joint
\* is the first thing to fail and its ids are strings; an object without
\* position that no PulleyJoint refers to is compiled, in a document where
\* nothing else fails, and comes out without position.
C18_MissingKeysFatalAndLazy ==
    /\ \A j \in DOMAIN InJoints :
          (Done /\ (LacksKey(InJoints[j]) \/ RefersToUnplaced(InJoints[j]))) =>
              /\ Failed
              /\ ( /\ IsDict(given)
                   /\ HasKey(given, "objects") => IsList(given.v.objects)
                   /\ NothingFailsBefore(j)
                   /\ \A id \in ReferencedIds(InJoints[j]) : IsStr(id) )
                 => FailedOnKey
    /\ ( /\ Done
         /\ IsDict(given)
         /\ HasKey(given, "objects") /\ IsList(given.v.objects)
         /\ HasKey(given, "joints") => IsList(given.v.joints)
         /\ NothingFailsBefore(Len(InJoints) + 1)
         /\ \E i \in DOMAIN InObjects : ~ HasKey(InObjects[i], "position") )
       => /\ Succeeded
          /\ \A i \in DOMAIN InObjects :
                HasKey(OutObjects[i], "position") <=> HasKey(InObjects[i], "position")

\* a document with an object without position and a PulleyJoint between
\* objects that have one has compiled
C18_Witness ==
    /\ Succeeded
    /\ \E i \in DOMAIN InObjects :
          ~ HasKey(InObjects[i], "position") /\ ~ HasKey(OutObjects[i], "position")
    /\ \E j \in DOMAIN InJoints : IsPulley(InJoints[j])

\* a PulleyJoint that refers to an object without position has made the call
\* fail on the key, after the objects were compiled
C18_WitnessFatal ==
    /\ FailedOnKey
    /\ \E j \in DOMAIN InJoints :
          /\ RefersToUnplaced(InJoints[j])
          /\ ~ LacksKey(InJoints[j])
          /\ NothingFailsBefore(j)


\* C19 as stated: after a successful call, an assignment into an output
\* object record, or into a value nested in it such as position or size,
\* leaves the caller's document as it was, and an assignment into the
\* document leaves the returned scene as it was.
Touched == pc = "touched"

C19_ObjectsAreCopies ==
    Touched =>
        IF edit[1] = "output" THEN mcp_data = given
        ELSE result = FreshResult(built_with, given)

\* C19, what the code does give: the record of an output object is a dict of
\* its own. An assignment to a key of an output object record leaves the
\* document as it was, and an assignment to a key of an input object record,
\* or to an element of the input objects list, leaves the scene as it was.
C19_RecordsAreShallowCopies ==
    Touched =>
        /\ (edit[1] = "output" /\ Len(edit[2]) = 3) => mcp_data = given
        /\ (edit[1] = "input" /\ edit[2][1] = "objects" /\ Len(edit[2]) <= 3) =>
              result = FreshResult(built_with, given)

\* the caller has assigned to scene["objects"][0]["position"]["x"], and its
\* document is no longer what it passed in
C19_Witness ==
    /\ Touched
    /\ edit = <<"output", <<"objects", "1", "position", "x">>>>
    /\ mcp_data # given
    /\ mcp_data.v.objects.v[1].v.position.v.x = Edited


\* C20: concurrent compile_scene calls on one instance, interleaved at any
\* step and even over the same document, each return what they would
\* return alone; while a call runs, its lookup table is the table of its own
\* document and its output lists hold the records of its own document, in
\* order, whatever the other calls do.
OwnTable(t) ==
    calls[t].pc \in {"objects", "joints"} =>
        calls[t].objects_map = BuildObjectsMap(ThreadObjects(t).v).v

OwnLists(t) ==
    calls[t].pc \in {"objects", "joints"} =>
        LET objs == ThreadObjects(t).v
            n == Len(calls[t].final_scene.objects)
            m == Len(calls[t].final_scene.joints)
        IN  /\ n <= Len(objs)
            /\ calls[t].final_scene.objects = ElaborateAll(SubSeq(objs, 1, n), 1, <<>>).v
            /\ calls[t].pc = "joints" =>
                  /\ n = Len(objs)
                  /\ m <= Len(ThreadJoints(t).v)
                  /\ calls[t].final_scene.joints =
                        ResolveAll(SubSeq(ThreadJoints(t).v, 1, m),
                                   calls[t].objects_map, 1, <<>>).v

C20_ConcurrentCallsAsAlone ==
    \A t \in Threads :
        /\ calls[t].pc = "done" => calls[t].result = FreshResult(G, calls[t].given)
        /\ InCall(t) => DocumentOf(t) = calls[t].given
        /\ OwnTable(t)
        /\ OwnLists(t)

\* two calls have run interleaved over documents with different lookup
\* tables, and both have returned a scene with a pulley
ReturnedPulley(t) ==
    /\ calls[t].pc = "done"
    /\ calls[t].overlapped
    /\ ~ IsNone(calls[t].result[1])
    /\ \E j \in DOMAIN calls[t].result[1].v.planck_scene.v.joints.v :
          HasKey(calls[t].result[1].v.planck_scene.v.joints.v[j], "length_a")

C20_Witness ==
    \E t \in Threads, u \in Threads :
        /\ t # u
        /\ ReturnedPulley(t)
        /\ ReturnedPulley(u)
        /\ calls[t].given # calls[u].given
        /\ calls[t].result # calls[u].result


\* C22: a call moves START -> OBJECTS_COMPILED -> JOINTS_COMPILED -> DONE, or
\* leaves to ERROR while it compiles, and it always ends, in exactly one of
\* DONE and ERROR, after at most |objects| + |joints| items. Every object is
\* elaborated before a joint is examined, so the failure of an object is the
\* one reported even when a joint is invalid too; joints are examined in
\* input order, and the first joint that fails ends the call with its error.
FailingObjects == {k \in DOMAIN InObjects : IsRaise(ElaborateObject(InObjects[k]))}
FailingJoints ==
    {k \in DOMAIN InJoints :
        IsRaise(ResolveJoint(InJoints[k], BuildObjectsMap(InObjects).v))}
Least(S) == CHOOSE k \in S : \A q \in S : k <= q

\* the verdict and the number of items of a call that is over
Verdict ==
    Done =>
        /\ Succeeded # Failed
        /\ IF FailingObjects # {}
           THEN result = Outcome(ElaborateObject(InObjects[Least(FailingObjects)]))
           ELSE IF FailingJoints # {}
           THEN result = Outcome(ResolveJoint(InJoints[Least(FailingJoints)],
                                              BuildObjectsMap(InObjects).v))
           ELSE /\ Succeeded
                /\ Len(OutObjects) = Len(InObjects)
                /\ Len(OutJoints) = Len(InJoints)

\* the items a running call has processed
WithinInput ==
    Running =>
        /\ Len(final_scene.objects) <= Len(InObjects)
        /\ Len(final_scene.joints) <= Len(InJoints)
        /\ pc = "objects" => idx = Len(final_scene.objects) + 1 /\ final_scene.joints = <<>>
        /\ pc = "joints" => /\ Len(final_scene.objects) = Len(InObjects)
                            /\ idx = Len(final_scene.joints) + 1

\* the steps a call takes from one phase to the next
PhaseStep ==
    /\ pc = "idle" => pc' = "start"
    /\ pc = "start" => pc' \in {"objects", "done"}
    /\ pc = "objects" =>
          \/ /\ pc' = "objects"
             /\ idx <= Len(InObjects)
             /\ final_scene'.objects =
                   Append(final_scene.objects, ElaborateObject(InObjects[idx]))
             /\ final_scene'.joints = <<>>
          \/ /\ pc' = "joints"
             /\ Len(final_scene.objects) = Len(InObjects)
             /\ final_scene' = final_scene
          \/ /\ pc' = "done"
             /\ idx <= Len(InObjects)
             /\ result' = Outcome(ElaborateObject(InObjects[idx]))
             /\ IsNone(result'[1])
    /\ pc = "joints" =>
          \/ /\ pc' = "joints"
             /\ idx <= Len(InJoints)
             /\ final_scene'.joints =
                   Append(final_scene.joints, ResolveJoint(InJoints[idx], objects_map))
             /\ final_scene'.objects = final_scene.objects
          \/ /\ pc' = "done"
             /\ idx <= Len(InJoints)
             /\ result' = Outcome(ResolveJoint(InJoints[idx], objects_map))
             /\ IsNone(result'[1])
          \/ /\ pc' = "done"
             /\ idx = Len(InJoints) + 1
             /\ result' = <<SceneValue(final_scene), None>>
    /\ pc = "done" => pc' = "idle"

C22_PhasesInOrderToTheEnd ==
    /\ [](Verdict /\ WithinInput)
    /\ [][PhaseStep]_vars
    /\ (Running ~> Done)

\* a call has ended on the error of its second object although its first
\* joint is invalid too
C22_Witness ==
    /\ Failed
    /\ Len(InObjects) = 2
    /\ FailingObjects = {2}
    /\ 1 \in FailingJoints
    /\ result = Outcome(ElaborateObject(InObjects[2]))
    /\ result # Outcome(ResolveJoint(InJoints[1], BuildObjectsMap(InObjects).v))


\* C23: when input objects share an id the call still succeeds (it fails only
\* where an object fails by itself or a pulley names an id no object has),
\* every one of them is emitted, in input order, and a PulleyJoint that
\* references the id has the length to the position of the last of them.
SharedIds ==
    \E p \in DOMAIN InObjects, q \in DOMAIN InObjects :
        p < q /\ InObjects[p].v.id = InObjects[q].v.id

Unnamed(id) == \A p \in DOMAIN InObjects : InObjects[p].v.id # id

\* out is the record rec, with at most a density added
EmittedFrom(out, rec) ==
    /\ DOMAIN out.v \in {DOMAIN rec.v, DOMAIN rec.v \cup {"density"}}
    /\ \A k \in DOMAIN rec.v : out.v[k] = rec.v[k]

C23_SharedIdLastWins ==
    (Done /\ SharedIds) =>
        /\ Failed =>
              \/ FailingObjects # {}
              \/ \E k \in DOMAIN InJoints :
                    /\ IsPulley(InJoints[k])
                    /\ \/ Unnamed(InJoints[k].v.object_a_id)
                       \/ Unnamed(InJoints[k].v.object_b_id)
        /\ Succeeded =>
              /\ Len(OutObjects) = Len(InObjects)
              /\ \A p \in DOMAIN InObjects : EmittedFrom(OutObjects[p], InObjects[p])
              /\ \A k \in DOMAIN InJoints :
                    IsPulley(InJoints[k]) =>
                        LET joint == InJoints[k].v
                        IN  /\ IsDistance(OutJoints[k].v.length_a,
                                          Named(joint.object_a_id).v.position,
                                          joint.pulley_anchor_pos)
                            /\ IsDistance(OutJoints[k].v.length_b,
                                          Named(joint.object_b_id).v.position,
                                          joint.pulley_anchor_pos)

\* two objects of id A at different positions and a pulley on A: the call has
\* succeeded with both objects in the output, and length_a is the distance
\* from the second, not from the first
C23_Witness ==
    /\ Succeeded
    /\ Len(InObjects) = 2
    /\ InObjects[1].v.id = InObjects[2].v.id
    /\ InObjects[1].v.position # InObjects[2].v.position
    /\ Len(OutObjects) = 2
    /\ \E k \in DOMAIN InJoints :
          /\ IsPulley(InJoints[k])
          /\ InJoints[k].v.object_a_id = InObjects[2].v.id
          /\ IsDistance(OutJoints[k].v.length_a, InObjects[2].v.position,
                        InJoints[k].v.pulley_anchor_pos)
          /\ ~ IsDistance(OutJoints[k].v.length_a, InObjects[1].v.position,
                          InJoints[k].v.pulley_anchor_pos)


\* C24: a document without a PulleyJoint that compiles to {"planck_scene": S}
\* gives a scene S that compiles, on the same compiler, to {"planck_scene": S}
\* again.
PulleyFree == \A k \in DOMAIN InJoints : ~ IsPulley(InJoints[k])

C24_IdempotentWithoutPulleys ==
    (Succeeded /\ PulleyFree) =>
        FreshResult(G, result[1].v.planck_scene) = result

\* a document without a world, with a dynamic object without a density and
\* a joint that is not a pulley, has compiled to a scene that differs from it
C24_Witness ==
    /\ Succeeded
    /\ PulleyFree
    /\ InJoints # <<>>
    /\ ~ HasKey(mcp_data, "world")
    /\ result[1].v.planck_scene # mcp_data
    /\ \E p \in DOMAIN InObjects :
          /\ IsDynamic(InObjects[p])
          /\ ~ HasKey(InObjects[p], "density")
          /\ HasKey(InObjects[p], "mass")
          /\ HasKey(OutObjects[p], "density")


\* C25: for every document the class of main.py, the class of
\* physics_engine_in_class.py, both built with the same gravity, and, when
\* that gravity is 9.8, build_scene_from_mcp give the same verdict, on
\* failure the same class of error, and on success the same planck_scene.
IsPair(r) == Len(r) = 2 /\ (IsNone(r[1]) # IsNone(r[2]))

\* the class of error of a failure r of the implementation with these texts
ErrorClassOf(texts, r) ==
    IF r[2].v[1] = texts.invalid_key THEN "invalid or missing key"
    ELSE IF r[2].v[1] = texts.unexpected THEN "unexpected error"
    ELSE "other"

SameOutcome(texts_a, a, texts_b, b) ==
    /\ IsPair(a)
    /\ IsPair(b)
    /\ IsNone(a[1]) <=> IsNone(b[1])
    /\ IF IsNone(a[1])
       THEN /\ ErrorClassOf(texts_a, a) = ErrorClassOf(texts_b, b)
            /\ ErrorClassOf(texts_a, a) # "other"
       ELSE a = b

MillisecondOf(id) == id \div 2 ^ (worker_id_bits + sequence_bits)
SequenceOf(id) == id % 2 ^ sequence_bits

Returns == generating.pc # "returned" /\ generating'.pc = "returned"

Increasing ==
    (Returns /\ generating.id # <<>>) =>
        LET id == generating'.id[1]
            before == generating.id[1]
        IN  /\ id > before
            /\ MillisecondOf(id) = MillisecondOf(before) =>
                  /\ id = before + 1
                  /\ SequenceOf(id) = SequenceOf(before) + 1
                  /\ ~ generating'.waited
            /\ MillisecondOf(id) # MillisecondOf(before) => SequenceOf(id) = 0
            /\ SequenceOf(before) = max_sequence =>
                  MillisecondOf(id) > MillisecondOf(before)

RaiseLeavesState ==
    /\ generating'.pc = "raised" => snowflake' = snowflake
    /\ (generating.pc = "idle" /\ generating'.pc # "idle"
        /\ clock < snowflake.last_timestamp) => generating'.pc = "raised"

C30_IdsStrictlyIncrease == [][Increasing /\ RaiseLeavesState]_vars

\* the sequence has wrapped: generate has waited and returned the first ID
\* of a later millisecond
C30_Witness ==
    /\ generating.pc = "returned"
    /\ generating.waited
    /\ snowflake.sequence = 0
    /\ SequenceOf(generating.id[1]) = 0
    /\ MillisecondOf(generating.id[1]) = snowflake.last_timestamp - snowflake.epoch

-----------------------------------------------------------------------------
(* Claims about OrderManagement *)

\* the call of modify_order_attribute is one the code turns down: no order,
\* no items, an index out of range, a name that is no attribute, or a value
\* that is not valid for its attribute
TurnedDown(call) ==
    \/ call.before = NoOrder
    \/ call.before.items = <<>>
    \/ call.item_index < 0
    \/ call.item_index >= Len(call.before.items)
    \/ \E a \in DOMAIN call.attributes_to_modify :
          \/ a \notin Attributes
          \/ call.attributes_to_modify[a] \notin valid_attributes[a]

\* the returned order differs from the order found in exactly the listed
\* attributes of the item at item_index
ExactlyListed(call) ==
    LET before == call.before
        after == call.returned
        at == call.item_index + 1
    IN  /\ after._order_id = before._order_id
        /\ after._status = before._status
        /\ Len(after.items) = Len(before.items)
        /\ \A j \in DOMAIN before.items :
              /\ DOMAIN after.items[j] = DOMAIN before.items[j]
              /\ \A attr \in DOMAIN before.items[j] :
                    after.items[j][attr] =
                        IF j = at /\ attr \in DOMAIN call.attributes_to_modify
                        THEN call.attributes_to_modify[attr]
                        ELSE before.items[j][attr]

\* C21: modify_order_attribute is all-or-nothing. A call that is turned
\* down returns the order with nothing changed; any other call returns it
\* with exactly the listed attributes of the item at item_index changed to
\* their new values. The returned order is the current order.
C21_ModifyAllOrNothing ==
    last_call.made =>
        /\ last_call.returned = current_order_in_session
        /\ TurnedDown(last_call) => last_call.returned = last_call.before
        /\ ~ TurnedDown(last_call) => ExactlyListed(last_call)

\* a call is turned down for its second attribute while its first one is
\* valid and would have changed the item
C21_Witness ==
    /\ last_call.made
    /\ last_call.attributes_to_modify =
           [name |-> "water chestnut tea", concentration |-> "200%"]
    /\ last_call.item_index = 1
    /\ Len(last_call.before.items) = 2
    /\ last_call.before.items[2].name = "jasmine milk tea"
    /\ last_call.returned = last_call.before

\* two attributes of the second item are changed by one call
C21_WitnessChanged ==
    /\ last_call.made
    /\ ~ TurnedDown(last_call)
    /\ Len(last_call.before.items) = 2
    /\ last_call.item_index = 1
    /\ \E a, b \in Attributes :
          /\ a # b
          /\ last_call.returned.items[2][a] # last_call.before.items[2][a]
          /\ last_call.returned.items[2][b] # last_call.before.items[2][b]

\* the order the call found can be sent: it exists, its status is one of
\* the three that can be sent, it has an item, and no attribute of any item
\* is None
CompleteOrder(order) ==
    /\ order # NoOrder
    /\ order._status \in {"in_progress", "pending_modification", "sent_failed"}
    /\ Len(order.items) >= 1
    /\ \A i \in DOMAIN order.items :
          \A attr \in {"name", "concentration", "sugar_level", "temperature"} :
             order.items[i][attr] # NoValue

\* C27: end_conversation_and_place_order submits to the backend only for a
\* complete order; for any other order it returns an error, has called
\* neither the backend nor a payment step, and the current order is the
\* order it found.
C27_SubmitsOnlyCompleteOrders ==
    /\ placing.submitted => CompleteOrder(placing.entry)
    /\ (placing.pc # "idle" /\ ~ CompleteOrder(placing.entry)) =>
          /\ placing.pc = "returned"
          /\ placing.returned = "error"
          /\ ~ placing.submitted
          /\ ~ placing.payment
          /\ current_order_in_session = placing.entry

\* an order of two items, the second without its concentration, is turned
\* down
C27_Witness ==
    /\ placing.pc = "returned"
    /\ placing.returned = "error"
    /\ Len(placing.entry.items) = 2
    /\ placing.entry._status = "in_progress"
    /\ missing_attributes(placing.entry.items[1]) = {}
    /\ missing_attributes(placing.entry.items[2]) = {"concentration"}
    /\ current_order_in_session = placing.entry

\* the call has marked the order completed, or has discarded it and
\* returned success
Completed ==
    \/ placing.pc = "thank you"
    \/ placing.pc = "returned" /\ placing.returned = "success"
    \/ /\ placing.pc = "returned"
       /\ current_order_in_session._status = "completed"
       /\ placing.entry._status # "completed"

\* C26 as stated: the order is marked completed, discarded and success is
\* returned only when the wait for the payment ended with the order paid.
C26_CompletedOnlyWhenPaid ==
    Completed => placing.waited = "paid"

\* C26, what the code does: success is returned when no step raised,
\* however the wait for the payment ended; the order has then been
\* submitted, the payment was asked for, and the order is discarded.
C26_CompletedWhateverTheWait ==
    /\ Completed =>
          /\ placing.submitted
          /\ placing.payment
          /\ placing.waited \in WaitOutcomes
          /\ CompleteOrder(placing.entry)
    /\ (placing.pc = "returned" /\ placing.returned = "success") =>
          current_order_in_session = NoOrder

\* the wait timed out, and the call returned success with the order
\* discarded
C26_Witness ==
    /\ placing.pc = "returned"
    /\ placing.returned = "success"
    /\ placing.waited = "timed out"
    /\ placing.entry # NoOrder
    /\ current_order_in_session = NoOrder

-----------------------------------------------------------------------------
(* Claims about FunctionRegistry and FunctionCallExecutor *)

\* the names callable through functions, sync_call and async_call
Callable == DOMAIN functions

\* C28 as stated: a register call that raises leaves the registry as it
\* found it, and the callable names are the names list_functions_for_mcp
\* describes.
C28_CallableAreListed ==
    /\ Callable = list_functions_for_mcp
    /\ (registering.made /\ registering.raised # "nothing") =>
          /\ functions = registering.functions
          /\ function_docs = registering.function_docs

\* C28, what the code does: every described name is callable; a register
\* call that raises for an object that is not callable or for a first
\* parameter self leaves the registry as it found it; one that raises for
\* required parameters without an Args block has stored the function under
\* its name and left the descriptions as they were.
C28_ListedAreCallable ==
    /\ list_functions_for_mcp \subseteq Callable
    /\ (registering.made /\ registering.raised \in {"TypeError", "AssertionError"}) =>
          /\ functions = registering.functions
          /\ function_docs = registering.function_docs
    /\ (registering.made /\ registering.raised = "ValueError") =>
          /\ function_docs = registering.function_docs
          /\ DOMAIN functions = DOMAIN registering.functions \cup {registering.func.__name__}
          /\ \A n \in DOMAIN functions :
                functions[n] = IF n = registering.func.__name__ THEN registering.func
                               ELSE registering.functions[n]

\* register raised for a function with required parameters and no Args
\* block, and the function is callable and not described
C28_Witness ==
    /\ registering.made
    /\ registering.raised = "ValueError"
    /\ registering.func.__name__ \in Callable
    /\ registering.func.__name__ \notin list_functions_for_mcp
    /\ functions # registering.functions

\* register raised for a second function of a described name; the name
\* calls the second function and is described as the first
C28_WitnessOverwritten ==
    /\ registering.made
    /\ registering.raised = "ValueError"
    /\ \E n \in list_functions_for_mcp : function_docs[n] # DocOf(functions[n])

\* the tool of the call is registered and failed: on its arguments, or
\* inside
ToolFailed ==
    /\ executing.tool_name \in Callable
    /\ CallOf(functions[executing.tool_name], executing.tool_input).raised # "nothing"

\* C29 as stated: execute_function_call returns a dict of tool_name, status
\* and result and never raises; a name that is not registered gives status
\* error and invokes nothing; a registered tool that fails gives a status
\* other than success.
C29_NeverRaises ==
    executing.made =>
        /\ executing.raised = "nothing"
        /\ DOMAIN executing.returned = {"tool_name", "status", "result"}
        /\ executing.tool_name \notin Callable =>
              executing.returned.status = "error" /\ ~ executing.invoked
        /\ ToolFailed => executing.returned.status # "success"

\* C29, what the code does: the call raises exactly when the tool is a
\* coroutine function that fails with a TypeError, on its arguments or
\* inside; every other call returns the dict, with status error and nothing
\* invoked for a name that is not registered, and with a status other than
\* success for a tool that failed.
C29_RaisesTypeErrorOfCoroutines ==
    executing.made =>
        LET tool_name == executing.tool_name
            TypeErrorOfCoroutine ==
                /\ tool_name \in Callable
                /\ functions[tool_name].coroutine
                /\ CallOf(functions[tool_name], executing.tool_input).raised
                      \in {"TypeError", "raises TypeError"}
        IN  /\ executing.raised # "nothing" <=> TypeErrorOfCoroutine
            /\ executing.raised \in {"nothing", "TypeError"}
            /\ executing.raised = "nothing" =>
                  /\ DOMAIN executing.returned = {"tool_name", "status", "result"}
                  /\ executing.returned.tool_name = tool_name
                  /\ tool_name \notin Callable =>
                        executing.returned.status = "error" /\ ~ executing.invoked
                  /\ ToolFailed => executing.returned.status # "success"
                  /\ (tool_name \in Callable /\ ~ ToolFailed) =>
                        executing.returned.status = "success" /\ executing.invoked

\* the registered coroutine function fetch_data is called without its url,
\* and the TypeError reaches the caller
C29_Witness ==
    /\ executing.made
    /\ executing.tool_name = "fetch_data"
    /\ executing.tool_name \in Callable
    /\ executing.tool_input = {}
    /\ ~ executing.invoked
    /\ executing.raised = "TypeError"

=============================================================================
